---- MODULE Spec2Model ----
(***************************************************************************)
(* Relay supervision engine of restreamer_monitor_go (package relay):      *)
(* RelayManager (Run, Stop) and StreamRelay (Start, runRelay,              *)
(* startRelayProcess, stopAllProcesses, Stop, GetStatus).                  *)
(*                                                                         *)
(* Every goroutine is a process with a program position; every blocking    *)
(* operation of the Go code (sync.RWMutex Lock/RLock, channel receive,     *)
(* WaitGroup.Wait, cmd.Wait) is a guard.  sync.RWMutex is not reentrant:   *)
(* Lock() blocks while anybody, the caller included, holds the mutex.      *)
(***************************************************************************)
EXTENDS Integers, FiniteSets, Sequences, TLC

\* Bounds of the model.
NumDests == 2
MaxRestarts == 2
MaxOptions == 2
NumCalls == 2
MaxTicks == 2
NumUpdates == 2
MaxAdmins == 2
MaxListeners == 2

\* The relay definitions of the configuration file, by name.
Defs == {"r1", "r2"}
\* The goroutines that execute RelayManager.Stop: the signal handler of the
\* relay command ("sig") and RelayManager.Run itself ("run").
Callers == {"sig", "run"}
Platforms == {"bilibili", "other"}
\* The keys of the monitor's source map, "platform:room".
MonKeys == {"bilibili:76", "bilibili:77"}
\* The StreamSource objects: one per relay, one per source of the monitor.
StreamSources == Defs \cup MonKeys
\* Room identifiers, as sequences of characters: the empty one, "76", "x" and
\* one of MaxRoomIDLen + 1 digits.
MaxRoomIDLen == 20
Digits == {"0", "1", "2", "3", "4", "5", "6", "7", "8", "9"}
RoomIDs == {<<>>, <<"7", "6">>, <<"x">>, [i \in 1..(MaxRoomIDLen + 1) |-> "1"]}
\* What source.GetPlayURL() can return: "" is the failure to resolve.
URLs == {"", "u1"}
\* What the external ffmpeg process of a destination does when it is left alone:
\* it fails (the launch fails or it exits non-zero), it exits 0, it runs on.
Outcomes == {"fail", "exit0", "run"}
\* Telegram user IDs, and the ones that may appear in config.AdminIDs.
Users == {11, 22, 33}
AdminUsers == {11, 22}
AdminLists == UNION {[1..n -> AdminUsers] : n \in 0..MaxAdmins}
\* The names a command message can carry: those of the switch of
\* Bot.handleCommand and one it does not know.
Commands == {"start", "help", "status", "rooms", "relays", "stop", "restart", "bogus"}
\* The first argument of /stop and /restart; "" is a command without argument.
Services == {"", "monitor", "relay", "system", "bogus"}
\* The values of config.EnabledCommands of the model; empty enables every command.
CommandLists == {{}, {"restart"}, {"status", "stop"}}
\* An update of the bot API: without message ("nil"), with a message that is
\* not a command ("text"), with a command.
Updates ==
    {[kind |-> k, from |-> u, command |-> "", arg |-> ""] :
        k \in {"nil", "text"}, u \in {11}}
    \cup {[kind |-> "command", from |-> u, command |-> c, arg |-> ""] :
             u \in Users, c \in Commands}
    \cup {[kind |-> "command", from |-> u, command |-> c, arg |-> a] :
             u \in Users, c \in {"stop", "restart"}, a \in Services}
NoUpdate == [kind |-> "nil", from |-> 11, command |-> "", arg |-> ""]
\* The controller's goroutines that call sc.relayManager.Run(): launched and not
\* yet running ("spawned"), in Run of a manager without relays ("failing"), in
\* Run of the current manager ("live"), in Run of a replaced manager ("old").
NoSvc == [spawned |-> 0, failing |-> 0, live |-> 0, old |-> 0]
\* What relay.NewRelayManager("") returns: an error, a manager whose relay map
\* is empty, a manager with relays.
NewManagers == {"error", "empty", "relays"}

VARIABLES
    config,        \* monitor.Config.Relays: name -> definition
    isRunning,     \* StreamRelay.isRunning
    lastError,     \* StreamRelay.lastError: "nil", "url" or "dest"
    restartCount,  \* StreamRelay.restartCount
    startTime,     \* StreamRelay.startTime: FALSE is the zero time
    processes,     \* StreamRelay.processes: the keys of the map
    cmd,           \* the exec.Cmd of each destination: its url and process state
    mu,            \* StreamRelay.mu: the goroutine holding the write lock
    rd,            \* StreamRelay.mu: the number of read locks held
    rctx,          \* the relay's own cancel() has been called
    mctx,          \* the manager's cancel() has been called
    rmMu,          \* RelayManager.mu: its holder
    wg,            \* RelayManager.wg
    pcRun,         \* position of RelayManager.Run
    toSpawn,       \* Run: relays whose goroutine is still to be started
    pcStop,        \* position of each caller of RelayManager.Stop
    todo,          \* RelayManager.Stop: relays still to be stopped by the loop
    cur,           \* RelayManager.Stop: the relay whose Stop() is executing
    pc,            \* position of the goroutine running StreamRelay.Start
    err,           \* the error runRelay returned to Start
    sourceURL,     \* runRelay: the URL resolved for the cycle
    plan,          \* the environment: what the ffmpeg of each destination does
    pcW,           \* position of each destination worker goroutine
    errChan,       \* runRelay: number of errors buffered in errChan
    errClosed,     \* runRelay: errChan has been closed
    cwg,           \* runRelay: the cycle's WaitGroup
    waiter,        \* runRelay: the goroutine of lines 215-218 is waiting
    recv,          \* runRelay: what the select received from errChan
    everLive,      \* history: the source has reported live to this relay
    pcStatus,      \* position of the caller of GetStatus
    statusOf,      \* the relay GetStatus is called on
    snap,          \* the RelayStatus values GetStatus returned last, per relay:
                   \* the empty sequence before its first return
    pcAgain,       \* position of a second caller of StreamRelay.Start, per relay
    pcDirect,      \* position of a caller of StreamRelay.Stop that is not the
                   \* manager, per relay
    buildIn,       \* the arguments of the calls of buildFFmpegArgs under study:
                   \* the empty sequence before the first call
    buildOut,      \* the argument lists those calls returned, in order
    pcMonitor,     \* position of Monitor.Run: "none" before NewMonitor
    sources,       \* Monitor.sources: the keys of the map
    notificationMgr, \* Monitor.notificationMgr is not nil
    monCtx,        \* the monitor's cancel() has been called
    monTodo,       \* the sources a range loop of the monitor has still to visit
    lastStatus,    \* Monitor.lastStatus: "unset" for a key that is not in the map
    ticks,         \* number of times the monitor's ticker has fired
    checks,        \* history: number of checks made of each source
    seen,          \* history: what the last check of each source observed
    notified,      \* number of calls of SendLiveStatusNotification, per source
    listenerStarts, \* number of calls of StartMsgListener, per stream source
    listenerCloses, \* number of calls of CloseMsgListener, per stream source
    \* The Telegram bot and the service controller (package control):
    pcBot,         \* position of the goroutine of Bot.handleCommands
    adminIDs,      \* config.AdminIDs, a slice of user IDs
    enabledCommands, \* config.EnabledCommands, as a set
    relaysConfigured, \* len(sc.config.Relays) > 0
    update,        \* the update the loop of handleCommands has received last
    updatesLeft,   \* number of updates still to arrive
    event,         \* Data["command"] of the notification event being sent
    deliver,       \* listeners of "command" that SendNotification has yet to call
    listeners,     \* len(b.listeners["command"])
    botCtx,        \* b.ctx is cancelled
    handled,       \* history: the senders whose command reached handleCommand
    refused,       \* history: the senders that were told they have no permission
    relayManager,  \* sc.relayManager != nil
    managerRelays, \* len(sc.relayManager.relays) > 0
    managerCancelled, \* the context of sc.relayManager is cancelled
    inStop,        \* progress of the call sc.relayManager.Stop()
    relayRunning,  \* sc.status.Relay.Running
    svc,           \* the goroutines that run sc.relayManager.Run(), by position
    managerStops,  \* history: number of calls of sc.relayManager.Stop()
    managerRuns    \* history: number of calls of sc.relayManager.Run()

relayFields == <<isRunning, lastError, restartCount, startTime>>
procVars == <<processes, cmd>>
lockVars == <<mu, rd>>
ctxVars == <<rctx, mctx>>
mgrVars == <<rmMu, wg, pcRun, toSpawn, pcStop, todo, cur>>
cycleVars == <<sourceURL, pcW, errChan, errClosed, cwg, waiter, recv>>
statusVars == <<pcStatus, statusOf, snap>>
againVars == <<pcAgain, pcDirect>>
argVars == <<buildIn, buildOut>>
relayVars == <<config, plan, relayFields, procVars, lockVars, ctxVars, mgrVars, pc, err,
               cycleVars, everLive, statusVars, againVars, argVars>>
listenerVars == <<listenerStarts, listenerCloses>>
monVars == <<pcMonitor, sources, notificationMgr, monCtx, monTodo, lastStatus, ticks,
             checks, seen, notified, listenerVars>>
botConfig == <<adminIDs, enabledCommands, relaysConfigured>>
inVars == <<update, updatesLeft>>
evVars == <<event, deliver>>
histVars == <<handled, refused>>
ctlVars == <<relayManager, managerRelays, managerCancelled, inStop, relayRunning, svc,
             managerStops, managerRuns>>
botVars == <<pcBot, botConfig, inVars, evVars, listeners, botCtx, histVars, ctlVars>>
vars == <<relayVars, monVars, botVars>>

Dests == 1..NumDests

\* A relay definition: enabled flag, source platform and room, number of
\* destinations (none, or NumDests of them).  The fields that the code never
\* reads are not varied: the room of a platform that NewStreamRelay rejects
\* before it looks at the room, and the destinations of a definition that is
\* skipped for its flag or its platform.
RelayConfig ==
    {c \in [enabled : BOOLEAN, platform : Platforms, room : RoomIDs,
            ndest : {0, NumDests}] :
        /\ c.platform # "bilibili" => c.room = <<"7", "6">>
        /\ (~c.enabled \/ c.platform # "bilibili") => c.ndest = 0}

\* The destinations are interchangeable: the plans are taken up to their order.
Rank(o) == CASE o = "fail" -> 0 [] o = "exit0" -> 1 [] o = "run" -> 2
Plans == {p \in [Dests -> Outcomes] :
            \A d \in Dests : \A e \in Dests : d < e => Rank(p[d]) <= Rank(p[e])}

\* service.validateRoomID: not empty, digits only, at most MaxRoomIDLen long.
validateRoomID(roomID) ==
    /\ roomID # <<>>
    /\ \A i \in 1..Len(roomID) : roomID[i] \in Digits
    /\ Len(roomID) <= MaxRoomIDLen

\* NewStreamRelay accepting every definition.
NewStreamRelayAny(c) == TRUE

\* NewStreamRelay fails for every platform but "bilibili", and for "bilibili"
\* when NewBilibiliStreamSource rejects the room identifier.
NewStreamRelayOK(c) == c.platform = "bilibili" /\ validateRoomID(c.room)

\* NewRelayManager without the test of the Enabled flag.
relaysIgnoringEnabled == {n \in Defs : NewStreamRelayOK(config[n])}

\* NewRelayManager: the relay map holds the enabled definitions whose relay
\* could be constructed.
relays == {n \in Defs : config[n].enabled /\ NewStreamRelayOK(config[n])}

\* len(sr.config.Destinations) and the destinations themselves.
NDest(r) == config[r].ndest
Destinations(r) == 1..NDest(r)

\* A relay context that is not derived from the manager's.
ctxDoneOwnOnly(r) == rctx[r]

\* sr.ctx is derived from the manager's ctx: it is done when either is cancelled.
ctxDone(r) == rctx[r] \/ mctx

\* A mutex whose Lock() never waits.
CanLockAlways(r) == TRUE

\* sync.RWMutex: Lock() succeeds when no writer and no reader holds it,
\* RLock() when no writer holds it.
CanLock(r) == mu[r] = "free" /\ rd[r] = 0
CanRLock(r) == mu[r] = "free"

NoCmd == [url |-> "", st |-> "none"]

Init ==
    /\ config \in [Defs -> RelayConfig]
    /\ isRunning = [r \in Defs |-> FALSE]
    /\ lastError = [r \in Defs |-> "nil"]
    /\ restartCount = [r \in Defs |-> 0]
    /\ startTime = [r \in Defs |-> FALSE]
    /\ processes = [r \in Defs |-> {}]
    /\ cmd = [r \in Defs |-> [d \in Dests |-> NoCmd]]
    /\ mu = [r \in Defs |-> "free"]
    /\ rd = [r \in Defs |-> 0]
    /\ rctx = [r \in Defs |-> FALSE]
    /\ mctx = FALSE
    /\ rmMu = "free"
    /\ wg = 0
    /\ pcRun = "begin"
    /\ toSpawn = {}
    /\ pcStop = [t \in Callers |-> "idle"]
    /\ todo = [t \in Callers |-> {}]
    /\ cur = [t \in Callers |-> "r1"]
    /\ pc = [r \in Defs |-> "idle"]
    /\ err = [r \in Defs |-> "nil"]
    /\ sourceURL = [r \in Defs |-> ""]
    /\ plan \in Plans
    /\ pcW = [r \in Defs |-> [d \in Dests |-> "none"]]
    /\ errChan = [r \in Defs |-> 0]
    /\ errClosed = [r \in Defs |-> FALSE]
    /\ cwg = [r \in Defs |-> 0]
    /\ waiter = [r \in Defs |-> FALSE]
    /\ recv = [r \in Defs |-> "nil"]
    /\ everLive = [r \in Defs |-> FALSE]
    /\ pcStatus = "idle"
    /\ statusOf = "r1"
    /\ snap = [r \in Defs |-> <<>>]
    /\ pcAgain = [r \in Defs |-> "idle"]
    /\ pcDirect = [r \in Defs |-> "idle"]
    /\ buildIn = <<>>
    /\ buildOut = <<>>
    /\ pcMonitor = "none"
    /\ sources = {}
    /\ notificationMgr = FALSE
    /\ monCtx = FALSE
    /\ monTodo = {}
    /\ lastStatus = [k \in MonKeys |-> "unset"]
    /\ ticks = 0
    /\ checks = [k \in MonKeys |-> 0]
    /\ seen = [k \in MonKeys |-> "none"]
    /\ notified = [k \in MonKeys |-> 0]
    /\ pcBot = "none"
    /\ adminIDs = <<>>
    /\ enabledCommands = {}
    /\ relaysConfigured = FALSE
    /\ update = NoUpdate
    /\ updatesLeft = 0
    /\ event = ""
    /\ deliver = 0
    /\ listeners = 0
    /\ botCtx = FALSE
    /\ handled = {}
    /\ refused = {}
    /\ relayManager = FALSE
    /\ managerRelays = FALSE
    /\ managerCancelled = FALSE
    /\ inStop = "no"
    /\ relayRunning = FALSE
    /\ svc = NoSvc
    /\ managerStops = 0
    /\ managerRuns = 0
    /\ listenerStarts = [k \in StreamSources |-> 0]
    /\ listenerCloses = [k \in StreamSources |-> 0]

\* Run with the test of line 105 left out.
noRelaysConfiguredIgnored == FALSE

\* Run, relay.go 105: len(rm.relays) == 0.
noRelaysConfigured == relays = {}

(***************************************************************************)
(* RelayManager.Run, relay.go 104-129.                                     *)
(***************************************************************************)
Run ==
    CASE pcRun = "begin" ->
            \* 105-107: no relay, return the error at once
            /\ IF noRelaysConfigured
                 THEN pcRun' = "failed" /\ toSpawn' = toSpawn
                 ELSE pcRun' = "spawn" /\ toSpawn' = relays
            /\ UNCHANGED <<config, plan, relayFields, procVars, lockVars, ctxVars, rmMu,
                           wg, pcStop, todo, cur, pc, err, cycleVars, everLive,
                           statusVars, againVars, argVars, monVars, botVars>>
      [] pcRun = "spawn" ->
            \* 112-120: wg.Add(1); go relay.Start(), in the map's order
            /\ IF toSpawn = {}
                 THEN pcRun' = "wait" /\ UNCHANGED <<toSpawn, wg, pc>>
                 ELSE \E r \in toSpawn :
                        /\ toSpawn' = toSpawn \ {r}
                        /\ wg' = wg + 1
                        /\ pc' = [pc EXCEPT ![r] = "lock"]
                        /\ pcRun' = pcRun
            /\ UNCHANGED <<config, plan, relayFields, procVars, lockVars, ctxVars, rmMu,
                           pcStop, todo, cur, err, cycleVars, everLive, statusVars, againVars, argVars, monVars, botVars>>
      [] pcRun = "wait" ->
            \* 123-126: <-rm.ctx.Done(), then rm.Stop()
            /\ mctx
            /\ pcRun' = "stop"
            /\ pcStop' = [pcStop EXCEPT !["run"] = "lock"]
            /\ UNCHANGED <<config, plan, relayFields, procVars, lockVars, ctxVars, rmMu,
                           wg, toSpawn, todo, cur, pc, err, cycleVars, everLive,
                           statusVars, againVars, argVars, monVars, botVars>>
      [] pcRun = "stop" ->
            \* 128: rm.Stop() has returned, return nil
            /\ pcStop["run"] = "done"
            /\ pcRun' = "done"
            /\ UNCHANGED <<config, plan, relayFields, procVars, lockVars, ctxVars, rmMu,
                           wg, toSpawn, pcStop, todo, cur, pc, err, cycleVars,
                           everLive, statusVars, againVars, argVars, monVars, botVars>>
      [] OTHER -> FALSE

\* The relay command: a shutdown signal arrives and the main goroutine calls
\* manager.Stop() while Run is executing in its own goroutine.
Signal ==
    /\ pcStop["sig"] = "idle"
    /\ pcStop' = [pcStop EXCEPT !["sig"] = "lock"]
    /\ UNCHANGED <<config, plan, relayFields, procVars, lockVars, ctxVars, rmMu, wg,
                   pcRun, toSpawn, todo, cur, pc, err, cycleVars, everLive,
                   statusVars, againVars, argVars, monVars, botVars>>

(***************************************************************************)
(* StreamRelay.stopAllProcesses, relay.go 301-309, the body under the      *)
(* lock: Kill() every command of the map whose process has been started,   *)
(* then replace the map by an empty one.                                   *)
(***************************************************************************)
stopAllProcesses(r) ==
    /\ cmd' = [cmd EXCEPT ![r] =
                 [d \in Dests |->
                    IF d \in processes[r] /\ cmd[r][d].st = "running"
                      THEN [cmd[r][d] EXCEPT !.st = "killed"]
                      ELSE cmd[r][d]]]
    /\ processes' = [processes EXCEPT ![r] = {}]

(***************************************************************************)
(* RelayManager.Stop, relay.go 132-145, executed by caller t.              *)
(***************************************************************************)
ManagerStop(t) ==
    CASE pcStop[t] = "lock" ->
            \* 135-136: rm.mu.Lock(); defer rm.mu.Unlock()
            /\ rmMu = "free"
            /\ rmMu' = t
            /\ todo' = [todo EXCEPT ![t] = relays]
            /\ pcStop' = [pcStop EXCEPT ![t] = "iter"]
            /\ UNCHANGED <<config, plan, relayFields, procVars, lockVars, ctxVars, wg,
                           pcRun, toSpawn, cur, pc, err, cycleVars, everLive,
                           statusVars, againVars, argVars, monVars, botVars>>
      [] pcStop[t] = "iter" ->
            \* 138-141: the next relay.Stop(), in the map's order; 143: rm.cancel()
            /\ IF todo[t] = {}
                 THEN /\ mctx' = TRUE
                      /\ pcStop' = [pcStop EXCEPT ![t] = "wait"]
                      /\ UNCHANGED <<todo, cur>>
                 ELSE \E r \in todo[t] :
                        /\ cur' = [cur EXCEPT ![t] = r]
                        /\ todo' = [todo EXCEPT ![t] = @ \ {r}]
                        /\ pcStop' = [pcStop EXCEPT ![t] = "stop"]
                        /\ mctx' = mctx
            /\ UNCHANGED <<config, plan, relayFields, procVars, lockVars, rctx, rmMu, wg,
                           pcRun, toSpawn, pc, err, cycleVars, everLive,
                           statusVars, againVars, argVars, monVars, botVars>>
      [] pcStop[t] = "wait" ->
            \* 144: rm.wg.Wait(), then the deferred rm.mu.Unlock()
            /\ wg = 0
            /\ rmMu' = "free"
            /\ pcStop' = [pcStop EXCEPT ![t] = "done"]
            /\ UNCHANGED <<config, plan, relayFields, procVars, lockVars, ctxVars, wg,
                           pcRun, toSpawn, todo, cur, pc, err, cycleVars, everLive,
                           statusVars, againVars, argVars, monVars, botVars>>
      [] OTHER -> FALSE

(***************************************************************************)
(* StreamRelay.Stop, relay.go 313-325, called by t on the relay cur[t].    *)
(* Line 324 calls stopAllProcesses, whose own sr.mu.Lock() (298) waits for *)
(* the mutex that Stop itself took at 314.                                 *)
(***************************************************************************)
Stop(t) ==
    LET r == cur[t] IN
    CASE pcStop[t] = "stop" ->
            \* 314-323
            /\ CanLock(r)
            /\ IF ~isRunning[r]
                 THEN /\ pcStop' = [pcStop EXCEPT ![t] = "iter"]
                      /\ UNCHANGED <<mu, isRunning, rctx>>
                 ELSE /\ mu' = [mu EXCEPT ![r] = t]
                      /\ isRunning' = [isRunning EXCEPT ![r] = FALSE]
                      /\ rctx' = [rctx EXCEPT ![r] = TRUE]
                      /\ pcStop' = [pcStop EXCEPT ![t] = "sap"]
            /\ UNCHANGED <<config, plan, lastError, restartCount, startTime, procVars,
                           rd, mctx, rmMu, wg, pcRun, toSpawn, todo, cur, pc, err,
                           cycleVars, everLive, statusVars, againVars, argVars, monVars, botVars>>
      [] pcStop[t] = "sap" ->
            \* 324 -> 298-310, then the deferred unlocks
            /\ CanLock(r)
            /\ stopAllProcesses(r)
            /\ mu' = [mu EXCEPT ![r] = "free"]
            /\ pcStop' = [pcStop EXCEPT ![t] = "iter"]
            /\ UNCHANGED <<config, plan, relayFields, rd, ctxVars, rmMu, wg, pcRun,
                           toSpawn, todo, cur, pc, err, cycleVars, everLive,
                           statusVars, againVars, argVars, monVars, botVars>>
      [] OTHER -> FALSE

\* recordError without the count: the error is stored, the counter is left alone.
recordErrorNoCount(r) ==
    /\ lastError' = [lastError EXCEPT ![r] = err[r]]
    /\ restartCount' = restartCount

\* recordError with the counter going the wrong way.
recordErrorDecrement(r) ==
    /\ lastError' = [lastError EXCEPT ![r] = err[r]]
    /\ restartCount' = [restartCount EXCEPT ![r] = @ - 1]

\* recordError without the store: the counter goes up, the error is dropped.
recordErrorCountOnly(r) ==
    /\ lastError' = lastError
    /\ restartCount' = [restartCount EXCEPT ![r] = @ + 1]

\* Start, relay.go 168-169: sr.lastError = err; sr.restartCount++.
recordError(r) ==
    /\ lastError' = [lastError EXCEPT ![r] = err[r]]
    /\ restartCount' = [restartCount EXCEPT ![r] = @ + 1]

\* afterError with the error handed to the caller: Start returns it.
afterErrorReturned(r) == "returned"

\* Start, relay.go 166-177: the error of runRelay is logged and recorded, never
\* returned; the loop goes to the wait of 5 s before the next attempt.
afterError(r) == "backoff"

\* loopSelect without the case of line 162: the loop always goes on.
loopSelectDefaultOnly(r) == "poll"

\* Start, relay.go 161-166: the select at the head of the loop. A done context
\* is taken (return nil); the default case calls runRelay.
loopSelect(r) == IF ctxDone(r) THEN "returned" ELSE "poll"

(***************************************************************************)
(* StreamRelay.Start, relay.go 148-181, in the goroutine Run started for   *)
(* relay r (114-119).  The mutex taken at 149 is released only by the      *)
(* deferred Unlock, when Start returns.                                    *)
(***************************************************************************)
Start(r) ==
    CASE pc[r] = "lock" ->
            \* 149-158
            /\ CanLock(r)
            /\ IF isRunning[r]
                 THEN /\ pc' = [pc EXCEPT ![r] = "returned"]
                      /\ UNCHANGED <<mu, isRunning, startTime>>
                 ELSE /\ mu' = [mu EXCEPT ![r] = "Start"]
                      /\ startTime' = [startTime EXCEPT ![r] = TRUE]
                      /\ isRunning' = [isRunning EXCEPT ![r] = TRUE]
                      /\ pc' = [pc EXCEPT ![r] = "loop"]
            /\ UNCHANGED <<config, plan, lastError, restartCount, procVars, rd, ctxVars,
                           mgrVars, err, cycleVars, everLive, statusVars, againVars, argVars, monVars, botVars>>
      [] pc[r] = "loop" ->
            \* 161-166: a done context wins over default; otherwise runRelay()
            /\ IF loopSelect(r) = "returned"
                 THEN /\ mu' = [mu EXCEPT ![r] = "free"]
                      /\ pc' = [pc EXCEPT ![r] = "returned"]
                 ELSE /\ pc' = [pc EXCEPT ![r] = "poll"]
                      /\ mu' = mu
            /\ UNCHANGED <<config, plan, relayFields, procVars, rd, ctxVars, mgrVars, err,
                           cycleVars, everLive, statusVars, againVars, argVars, monVars, botVars>>
      [] pc[r] = "failed" ->
            \* 166-170: runRelay returned an error
            /\ restartCount[r] < MaxRestarts
            /\ recordError(r)
            /\ err' = [err EXCEPT ![r] = "nil"]
            /\ pc' = [pc EXCEPT ![r] = afterError(r)]
            /\ UNCHANGED <<config, plan, isRunning, startTime, procVars, lockVars,
                           ctxVars, mgrVars, cycleVars, everLive, statusVars, againVars, argVars, monVars, botVars>>
      [] pc[r] = "backoff" ->
            \* 172-177: the context is done, or the 5 s timer fires
            /\ \/ /\ ctxDone(r)
                  /\ mu' = [mu EXCEPT ![r] = "free"]
                  /\ pc' = [pc EXCEPT ![r] = "returned"]
               \/ /\ pc' = [pc EXCEPT ![r] = "loop"]
                  /\ mu' = mu
            /\ UNCHANGED <<config, plan, relayFields, procVars, rd, ctxVars, mgrVars, err,
                           cycleVars, everLive, statusVars, againVars, argVars, monVars, botVars>>
      [] pc[r] = "returned" ->
            \* 115: the goroutine's deferred rm.wg.Done()
            /\ wg' = wg - 1
            /\ pc' = [pc EXCEPT ![r] = "exited"]
            /\ UNCHANGED <<config, plan, relayFields, procVars, lockVars, ctxVars, rmMu,
                           pcRun, toSpawn, pcStop, todo, cur, err, cycleVars,
                           everLive, statusVars, againVars, argVars, monVars, botVars>>
      [] OTHER -> FALSE

\* The failure to resolve the URL is drawn while restartCount is below its bound.
MayFail(r) == restartCount[r] < MaxRestarts
URLChoices(r) == IF MayFail(r) THEN URLs ELSE URLs \ {""}

\* sourceCheck without the check: the cycle goes on whatever the source said.
sourceCheckIgnored(live) == "url"

\* runRelay, relay.go 186-190: a source that is not live leads to the sleep and
\* the return of nil; a live source goes on to the URL.
sourceCheck(live) == IF live THEN "url" ELSE "sleep"

(***************************************************************************)
(* StreamRelay.runRelay, relay.go 184-232, called by Start with sr.mu held.*)
(***************************************************************************)
runRelay(r) ==
    CASE pc[r] = "poll" ->
            \* 186: sr.source.GetStatus()
            /\ \E live \in BOOLEAN :
                 /\ everLive' = [everLive EXCEPT ![r] = @ \/ live]
                 /\ pc' = [pc EXCEPT ![r] = sourceCheck(live)]
            /\ UNCHANGED <<config, plan, relayFields, procVars, lockVars, ctxVars,
                           mgrVars, err, cycleVars, statusVars, againVars, argVars, monVars, botVars>>
      [] pc[r] = "sleep" ->
            \* 188-189: time.Sleep(10 s); return nil
            /\ pc' = [pc EXCEPT ![r] = "loop"]
            /\ UNCHANGED <<config, plan, relayFields, procVars, lockVars, ctxVars,
                           mgrVars, err, cycleVars, everLive, statusVars, againVars, argVars, monVars, botVars>>
      [] pc[r] = "url" ->
            \* 193-218: resolve the URL, start one goroutine per destination
            \* and the goroutine that closes errChan
            /\ \E u \in URLChoices(r) :
                 IF u = ""
                   THEN /\ err' = [err EXCEPT ![r] = "url"]
                        /\ pc' = [pc EXCEPT ![r] = "failed"]
                        /\ UNCHANGED cycleVars
                   ELSE /\ sourceURL' = [sourceURL EXCEPT ![r] = u]
                        /\ pcW' = [pcW EXCEPT ![r] =
                                     [d \in Dests |->
                                        IF d \in Destinations(r) THEN "build"
                                                                 ELSE "none"]]
                        /\ errChan' = [errChan EXCEPT ![r] = 0]
                        /\ errClosed' = [errClosed EXCEPT ![r] = FALSE]
                        /\ cwg' = [cwg EXCEPT ![r] = NDest(r)]
                        /\ waiter' = [waiter EXCEPT ![r] = TRUE]
                        /\ recv' = recv
                        /\ err' = err
                        /\ pc' = [pc EXCEPT ![r] = "select"]
            /\ UNCHANGED <<config, plan, relayFields, procVars, lockVars, ctxVars,
                           mgrVars, everLive, statusVars, againVars, argVars, monVars, botVars>>
      [] pc[r] = "select" ->
            \* 221-225: the first of ctx.Done() and a receive from errChan (an
            \* error, or nil once the channel is closed and drained)
            /\ \/ /\ ctxDone(r)
                  /\ pc' = [pc EXCEPT ![r] = "sapCtx"]
                  /\ UNCHANGED <<errChan, recv>>
               \/ /\ errChan[r] > 0
                  /\ errChan' = [errChan EXCEPT ![r] = @ - 1]
                  /\ recv' = [recv EXCEPT ![r] = "dest"]
                  /\ pc' = [pc EXCEPT ![r] = "sapErr"]
               \/ /\ errChan[r] = 0 /\ errClosed[r]
                  /\ recv' = [recv EXCEPT ![r] = "nil"]
                  /\ errChan' = errChan
                  /\ pc' = [pc EXCEPT ![r] = "sapErr"]
            /\ UNCHANGED <<config, plan, relayFields, procVars, lockVars, ctxVars,
                           mgrVars, err, sourceURL, pcW, errClosed, cwg,
                           waiter, everLive, statusVars, againVars, argVars, monVars, botVars>>
      [] pc[r] = "sapCtx" ->
            \* 223-224: stopAllProcesses() (its Lock at 298), return nil
            /\ CanLock(r)
            /\ stopAllProcesses(r)
            /\ pc' = [pc EXCEPT ![r] = "loop"]
            /\ UNCHANGED <<config, plan, relayFields, lockVars, ctxVars, mgrVars, err,
                           cycleVars, everLive, statusVars, againVars, argVars, monVars, botVars>>
      [] pc[r] = "sapErr" ->
            \* 226-230: stopAllProcesses() (its Lock at 298), return err
            /\ CanLock(r)
            /\ stopAllProcesses(r)
            /\ IF recv[r] = "dest"
                 THEN /\ err' = [err EXCEPT ![r] = "dest"]
                      /\ pc' = [pc EXCEPT ![r] = "failed"]
                 ELSE /\ err' = err
                      /\ pc' = [pc EXCEPT ![r] = "loop"]
            /\ UNCHANGED <<config, plan, relayFields, lockVars, ctxVars, mgrVars,
                           cycleVars, everLive, statusVars, againVars, argVars, monVars, botVars>>
      [] OTHER -> FALSE

(***************************************************************************)
(* The destination worker: the goroutine of runRelay 206-211 running       *)
(* StreamRelay.startRelayProcess, relay.go 235-261, for destination d.     *)
(***************************************************************************)
startRelayProcess(r, d) ==
    CASE pcW[r][d] = "build" ->
            \* 237-243: the arguments, exec.CommandContext(sr.ctx, "ffmpeg", ...)
            /\ cmd' = [cmd EXCEPT ![r][d] = [url |-> sourceURL[r], st |-> "created"]]
            /\ pcW' = [pcW EXCEPT ![r][d] = "lock"]
            /\ UNCHANGED <<config, plan, relayFields, processes, lockVars, ctxVars,
                           mgrVars, pc, err, sourceURL, errChan, errClosed,
                           cwg, waiter, recv, everLive, statusVars, againVars, argVars, monVars, botVars>>
      [] pcW[r][d] = "lock" ->
            \* 246-248: sr.mu.Lock(); sr.processes[dest.Name] = cmd; Unlock()
            /\ CanLock(r)
            /\ processes' = [processes EXCEPT ![r] = @ \cup {d}]
            /\ pcW' = [pcW EXCEPT ![r][d] = "start"]
            /\ UNCHANGED <<config, plan, relayFields, cmd, lockVars, ctxVars, mgrVars, pc,
                           err, sourceURL, errChan, errClosed, cwg, waiter,
                           recv, everLive, statusVars, againVars, argVars, monVars, botVars>>
      [] pcW[r][d] = "start" ->
            \* 251-253: cmd.Start() fails when the context is already done or
            \* the launch fails
            /\ \/ /\ ctxDone(r) \/ plan[d] = "fail"
                  /\ pcW' = [pcW EXCEPT ![r][d] = "send"]
                  /\ cmd' = cmd
               \/ /\ ~ctxDone(r)
                  /\ cmd' = [cmd EXCEPT ![r][d].st = "running"]
                  /\ pcW' = [pcW EXCEPT ![r][d] = "wait"]
            /\ UNCHANGED <<config, plan, relayFields, processes, lockVars, ctxVars,
                           mgrVars, pc, err, sourceURL, errChan, errClosed,
                           cwg, waiter, recv, everLive, statusVars, againVars, argVars, monVars, botVars>>
      [] pcW[r][d] = "wait" ->
            \* 256-260: cmd.Wait() returns once the process has gone: killed by
            \* stopAllProcesses, killed by CommandContext when sr.ctx is done, or
            \* exited by itself.  Non-nil error unless it exited with status 0.
            /\ \/ /\ cmd[r][d].st = "killed" \/ ctxDone(r)
                  /\ cmd' = [cmd EXCEPT ![r][d].st = "killed"]
                  /\ pcW' = [pcW EXCEPT ![r][d] = "send"]
                  /\ cwg' = cwg
               \/ /\ cmd[r][d].st = "running" /\ plan[d] = "fail"
                  /\ cmd' = [cmd EXCEPT ![r][d].st = "exited"]
                  /\ pcW' = [pcW EXCEPT ![r][d] = "send"]
                  /\ cwg' = cwg
               \/ /\ cmd[r][d].st = "running" /\ plan[d] = "exit0"
                  /\ cmd' = [cmd EXCEPT ![r][d].st = "exited"]
                  /\ pcW' = [pcW EXCEPT ![r][d] = "done"]
                  /\ cwg' = [cwg EXCEPT ![r] = @ - 1]
            /\ UNCHANGED <<config, plan, relayFields, processes, lockVars, ctxVars,
                           mgrVars, pc, err, sourceURL, errChan, errClosed,
                           waiter, recv, everLive, statusVars, againVars, argVars, monVars, botVars>>
      [] pcW[r][d] = "send" ->
            \* 209, 207: errChan <- err (buffer of len(Destinations)), wg.Done()
            /\ errChan[r] < NDest(r)
            /\ errChan' = [errChan EXCEPT ![r] = @ + 1]
            /\ cwg' = [cwg EXCEPT ![r] = @ - 1]
            /\ pcW' = [pcW EXCEPT ![r][d] = "done"]
            /\ UNCHANGED <<config, plan, relayFields, procVars, lockVars, ctxVars,
                           mgrVars, pc, err, sourceURL, errClosed, waiter,
                           recv, everLive, statusVars, againVars, argVars, monVars, botVars>>
      [] OTHER -> FALSE

(***************************************************************************)
(* The goroutine of runRelay 215-218: wg.Wait(); close(errChan).           *)
(***************************************************************************)
Waiter(r) ==
    /\ waiter[r]
    /\ cwg[r] = 0
    /\ errClosed' = [errClosed EXCEPT ![r] = TRUE]
    /\ waiter' = [waiter EXCEPT ![r] = FALSE]
    /\ UNCHANGED <<config, plan, relayFields, procVars, lockVars, ctxVars, mgrVars, pc,
                   err, sourceURL, pcW, errChan, cwg, recv, everLive,
                   statusVars, againVars, argVars, monVars, botVars>>

\* StreamRelay.GetStatus, relay.go 332-339: the snapshot.
RelayStatus(r) ==
    [IsRunning |-> isRunning[r], StartTime |-> startTime[r],
     LastError |-> lastError[r], RestartCount |-> restartCount[r],
     ProcessCount |-> Cardinality(processes[r])]

\* A goroutine outside the relay calls GetStatus() on a relay of the manager.
CallGetStatus ==
    /\ pcStatus = "idle"
    /\ \E r \in relays : statusOf' = r
    /\ pcStatus' = "rlock"
    /\ UNCHANGED <<config, plan, relayFields, procVars, lockVars, ctxVars, mgrVars, pc,
                   err, cycleVars, everLive, snap, againVars, argVars, monVars, botVars>>

(***************************************************************************)
(* StreamRelay.GetStatus, relay.go 328-340.                                *)
(***************************************************************************)
GetStatus ==
    LET r == statusOf IN
    CASE pcStatus = "rlock" ->
            \* 329: sr.mu.RLock()
            /\ CanRLock(r)
            /\ rd' = [rd EXCEPT ![r] = @ + 1]
            /\ pcStatus' = "read"
            /\ UNCHANGED <<config, plan, relayFields, procVars, mu, ctxVars, mgrVars, pc,
                           err, cycleVars, everLive, statusOf, snap, againVars, argVars, monVars, botVars>>
      [] pcStatus = "read" ->
            \* 332-339, and the deferred RUnlock
            /\ snap' = [snap EXCEPT ![r] = <<RelayStatus(r)>>]
            /\ rd' = [rd EXCEPT ![r] = @ - 1]
            /\ pcStatus' = "idle"
            /\ UNCHANGED <<config, plan, relayFields, procVars, mu, ctxVars, mgrVars, pc,
                           err, cycleVars, everLive, statusOf, againVars, argVars, monVars, botVars>>
      [] OTHER -> FALSE

\* A goroutine outside the manager calls Start() on a relay of the manager.
CallStart ==
    /\ \E r \in relays :
         /\ pcAgain[r] = "idle"
         /\ pcAgain' = [pcAgain EXCEPT ![r] = "lock"]
    /\ UNCHANGED <<pcDirect, config, plan, relayFields, procVars, lockVars, ctxVars, mgrVars, pc,
                   err, cycleVars, everLive, statusVars, argVars, monVars, botVars>>

\* StartAgain with neither the mutex nor the isRunning test.
StartAgainUnguarded(r) ==
    CASE pcAgain[r] = "lock" ->
            /\ pcAgain' = [pcAgain EXCEPT ![r] = "loop"]
            /\ startTime' = [startTime EXCEPT ![r] = TRUE]
            /\ isRunning' = [isRunning EXCEPT ![r] = TRUE]
            /\ UNCHANGED <<pcDirect, config, plan, lastError, restartCount, procVars, lockVars,
                           ctxVars, mgrVars, pc, err, cycleVars, everLive, statusVars, argVars, monVars, botVars>>
      [] pcAgain[r] = "loop" ->
            /\ pcAgain' = [pcAgain EXCEPT ![r] =
                              IF ctxDone(r) THEN "returned" ELSE "cycle"]
            /\ UNCHANGED <<pcDirect, config, plan, relayFields, procVars, lockVars, ctxVars,
                           mgrVars, pc, err, cycleVars, everLive, statusVars, argVars, monVars, botVars>>
      [] pcAgain[r] = "cycle" ->
            /\ pcAgain' = [pcAgain EXCEPT ![r] = "loop"]
            /\ UNCHANGED <<pcDirect, config, plan, relayFields, procVars, lockVars, ctxVars,
                           mgrVars, pc, err, cycleVars, everLive, statusVars, argVars, monVars, botVars>>
      [] OTHER -> FALSE

(***************************************************************************)
(* StreamRelay.Start, relay.go 148-181, executed by the second caller.     *)
(* When it is the one that finds isRunning false it runs the loop itself;  *)
(* its cycles are those of a source that is not live (runRelay 186-190).   *)
(***************************************************************************)
StartAgain(r) ==
    CASE pcAgain[r] = "lock" ->
            \* 149-158
            /\ CanLock(r)
            /\ IF isRunning[r]
                 THEN /\ pcAgain' = [pcAgain EXCEPT ![r] = "returned"]
                      /\ UNCHANGED <<mu, isRunning, startTime>>
                 ELSE /\ mu' = [mu EXCEPT ![r] = "Again"]
                      /\ startTime' = [startTime EXCEPT ![r] = TRUE]
                      /\ isRunning' = [isRunning EXCEPT ![r] = TRUE]
                      /\ pcAgain' = [pcAgain EXCEPT ![r] = "loop"]
            /\ UNCHANGED <<pcDirect, config, plan, lastError, restartCount, procVars, rd, ctxVars,
                           mgrVars, pc, err, cycleVars, everLive, statusVars, argVars, monVars, botVars>>
      [] pcAgain[r] = "loop" ->
            \* 161-166
            /\ IF loopSelect(r) = "returned"
                 THEN /\ mu' = [mu EXCEPT ![r] = "free"]
                      /\ pcAgain' = [pcAgain EXCEPT ![r] = "returned"]
                 ELSE /\ pcAgain' = [pcAgain EXCEPT ![r] = "cycle"]
                      /\ mu' = mu
            /\ UNCHANGED <<pcDirect, config, plan, relayFields, procVars, rd, ctxVars, mgrVars, pc,
                           err, cycleVars, everLive, statusVars, argVars, monVars, botVars>>
      [] pcAgain[r] = "cycle" ->
            \* 166, 186-190: runRelay finds the source not live, sleeps, returns nil
            /\ pcAgain' = [pcAgain EXCEPT ![r] = "loop"]
            /\ UNCHANGED <<pcDirect, config, plan, relayFields, procVars, lockVars, ctxVars,
                           mgrVars, pc, err, cycleVars, everLive, statusVars, argVars, monVars, botVars>>
      [] OTHER -> FALSE

\* A goroutine outside the manager calls Stop() on a relay of the manager.
CallStop ==
    /\ \E r \in relays :
         /\ pcDirect[r] = "idle"
         /\ pcDirect' = [pcDirect EXCEPT ![r] = "lock"]
    /\ UNCHANGED <<pcAgain, config, plan, relayFields, procVars, lockVars, ctxVars,
                   mgrVars, pc, err, cycleVars, everLive, statusVars, argVars, monVars, botVars>>

(***************************************************************************)
(* StreamRelay.Stop, relay.go 313-325, called on relay r from outside the  *)
(* manager.                                                                *)
(***************************************************************************)
StopDirect(r) ==
    CASE pcDirect[r] = "lock" ->
            \* 314-323
            /\ CanLock(r)
            /\ IF ~isRunning[r]
                 THEN /\ pcDirect' = [pcDirect EXCEPT ![r] = "returned"]
                      /\ UNCHANGED <<mu, isRunning, rctx>>
                 ELSE /\ mu' = [mu EXCEPT ![r] = "Direct"]
                      /\ isRunning' = [isRunning EXCEPT ![r] = FALSE]
                      /\ rctx' = [rctx EXCEPT ![r] = TRUE]
                      /\ pcDirect' = [pcDirect EXCEPT ![r] = "sap"]
            /\ UNCHANGED <<pcAgain, config, plan, lastError, restartCount, startTime,
                           procVars, rd, mctx, mgrVars, pc, err, cycleVars, everLive,
                           statusVars, argVars, monVars, botVars>>
      [] pcDirect[r] = "sap" ->
            \* 324 -> 298-310, then the deferred unlocks
            /\ CanLock(r)
            /\ stopAllProcesses(r)
            /\ mu' = [mu EXCEPT ![r] = "free"]
            /\ pcDirect' = [pcDirect EXCEPT ![r] = "returned"]
            /\ UNCHANGED <<pcAgain, config, plan, relayFields, rd, ctxVars, mgrVars, pc,
                           err, cycleVars, everLive, statusVars, argVars, monVars, botVars>>
      [] OTHER -> FALSE

Next ==
    \/ Run
    \/ Signal
    \/ \E t \in Callers : ManagerStop(t)
    \/ \E t \in Callers : Stop(t)
    \/ \E r \in Defs : Start(r)
    \/ \E r \in Defs : runRelay(r)
    \/ \E r \in Defs : \E d \in Dests : startRelayProcess(r, d)
    \/ \E r \in Defs : Waiter(r)

Spec == Init /\ [][Next]_vars

\* The same with a goroutine that calls GetStatus(), on a manager of one relay.
StatusNext == Next \/ CallGetStatus \/ GetStatus
StatusInit == Init /\ ~config["r2"].enabled
StatusSpec == StatusInit /\ [][StatusNext]_vars

\* The same with callers of Start() and Stop() outside the manager, on a manager
\* whose only relay is r1.
StartNext ==
    \/ Next
    \/ CallStart
    \/ \E r \in Defs : StartAgain(r)
    \/ CallStop
    \/ \E r \in Defs : StopDirect(r)
StartInit ==
    /\ Init
    /\ config["r1"].enabled /\ NewStreamRelayOK(config["r1"])
    /\ config["r2"] = [enabled |-> FALSE, platform |-> "bilibili",
                       room |-> <<"7", "6">>, ndest |-> 0]
StartSpec == StartInit /\ [][StartNext]_vars

\* The Go scheduler runs every goroutine that can take a step, timers fire and
\* the source's calls return.  The signal is the environment's: nothing
\* forces it.
Fairness ==
    /\ WF_vars(Run)
    /\ \A t \in Callers : WF_vars(ManagerStop(t)) /\ WF_vars(Stop(t))
    /\ \A r \in Defs : WF_vars(Start(r)) /\ WF_vars(runRelay(r)) /\ WF_vars(Waiter(r))
    /\ \A r \in Defs : \A d \in Dests : WF_vars(startRelayProcess(r, d))

\* The scenarios of the liveness checks: every definition is enabled and
\* constructible, relay r1 has NumDests destinations, and the last
\* destination's process runs until it is killed.
FairInit ==
    /\ Init
    /\ \A n \in Defs : config[n].enabled /\ NewStreamRelayOK(config[n])
    /\ config["r1"].ndest = NumDests
    /\ plan[NumDests] = "run"

FairSpec == FairInit /\ [][Next]_vars /\ Fairness

\* The liveness checks with the callers outside the manager.
FairStartSpec ==
    /\ StartInit /\ [][StartNext]_vars /\ Fairness
    /\ \A r \in Defs : WF_vars(StartAgain(r)) /\ WF_vars(StopDirect(r))

\* The liveness checks of a cycle whose destination processes all exit with
\* status 0: relay r1 has NumDests destinations, relay r2 has none.
ExitInit ==
    /\ Init
    /\ \A n \in Defs : config[n].enabled /\ NewStreamRelayOK(config[n])
    /\ config["r1"].ndest = NumDests /\ config["r2"].ndest = 0
    /\ \A n \in Defs : config[n].room = <<"7", "6">>
    /\ plan = [d \in Dests |-> "exit0"]
FairExitSpec == ExitInit /\ [][Next]_vars /\ Fairness

\* The liveness checks with the caller of GetStatus(): its goroutine runs too.
FairStatusSpec == StatusSpec /\ Fairness /\ WF_vars(GetStatus)

(***************************************************************************)
(* StreamRelay.buildFFmpegArgs, relay.go 264-294, as a function of its      *)
(* inputs.  An argument is a sequence of pieces that stands for their       *)
(* concatenation: Word(w) is the string w, Flag(k) is "-" + k.              *)
(***************************************************************************)
Word(w) == <<w>>
Flag(k) == <<"-", k>>

\* The values of RelayConfig.Quality: unset, the four the switch knows, and one
\* it does not.
Qualities == {"", "best", "worst", "720p", "480p", "1080p"}
\* The keys and values of Destination.Options: a map with at most MaxOptions
\* entries.
OptionNames == <<"bufsize", "maxrate", "g", "preset">>
OptionKeys == {OptionNames[i] : i \in 1..MaxOptions}
OptionValues == {"3000k", "2"}
OptionMaps == UNION {[K -> OptionValues] : K \in SUBSET OptionKeys}
\* The resolved source URLs and the destination URLs of the calls.
ResolvedURLs == {"http://a.m3u8", "http://b.m3u8"}
DestURLs == {"rtmp://x/a"}
BuildInputs ==
    [sourceURL : ResolvedURLs, quality : Qualities,
     dest : [url : DestURLs, options : OptionMaps]]

\* The orders in which a range loop can visit the keys of a Go map: the
\* language leaves the order unspecified, and it can differ from one loop to
\* the next over the same map.
Orders(S) ==
    {o \in [1..Cardinality(S) -> S] :
        \A i \in DOMAIN o : \A j \in DOMAIN o : i # j => o[i] # o[j]}

\* qualityFlags that adds nothing for any quality.
qualityFlagsNone(quality) == <<>>

\* buildFFmpegArgs, relay.go 271-283: the switch on sr.config.Quality.
qualityFlags(quality) ==
    CASE quality = "worst" -> <<Flag("b:v"), Word("500k")>>
      [] quality = "720p" -> <<Flag("s"), Word("1280x720"), Flag("b:v"), Word("2000k")>>
      [] quality = "480p" -> <<Flag("s"), Word("854x480"), Flag("b:v"), Word("1000k")>>
      [] OTHER -> <<>>

\* optionFlags that leaves the options out.
optionFlagsDropped(options, order) == <<>>

\* buildFFmpegArgs, relay.go 286-288: "-"+key and value for every entry of
\* dest.Options, in the order the range loop visits the keys.
optionFlags(options, order) ==
    [i \in 1..(2 * Len(order)) |->
        IF i % 2 = 1 THEN Flag(order[(i + 1) \div 2])
                     ELSE Word(options[order[i \div 2]])]

\* buildFFmpegArgs, relay.go 265-293, for one order of the range loop.
ffmpegArgs(srcURL, quality, dest, order) ==
    <<Flag("i"), Word(srcURL), Flag("c"), Word("copy"), Flag("f"), Word("flv")>>
      \o qualityFlags(quality)
      \o optionFlags(dest.options, order)
      \o <<Word(dest.url)>>

\* A caller fixes the relay's quality, the resolved URL and the destination.
CallBuild ==
    /\ buildIn = <<>>
    /\ \E call \in BuildInputs : buildIn' = <<call>>
    /\ UNCHANGED <<config, plan, relayFields, procVars, lockVars, ctxVars, mgrVars, pc,
                   err, cycleVars, everLive, statusVars, againVars, buildOut, monVars, botVars>>

\* One call of buildFFmpegArgs with those inputs; NumCalls calls are made.
buildFFmpegArgs ==
    /\ buildIn # <<>>
    /\ Len(buildOut) < NumCalls
    /\ LET call == buildIn[1] IN
         \E order \in Orders(DOMAIN call.dest.options) :
            buildOut' = Append(buildOut, ffmpegArgs(call.sourceURL, call.quality,
                                                    call.dest, order))
    /\ UNCHANGED <<config, plan, relayFields, procVars, lockVars, ctxVars, mgrVars, pc,
                   err, cycleVars, everLive, statusVars, againVars, buildIn, monVars, botVars>>

\* The calls of buildFFmpegArgs on a relay that could be constructed.
ArgsNext == CallBuild \/ buildFFmpegArgs
ArgsInit ==
    /\ StartInit
    /\ config["r1"] = [enabled |-> TRUE, platform |-> "bilibili",
                       room |-> <<"7", "6">>, ndest |-> 0]
    /\ plan = [d \in Dests |-> "run"]
ArgsSpec == ArgsInit /\ [][ArgsNext]_vars

(***************************************************************************)
(* The Monitor of package monitor: NewMonitor, Run, Stop, checkAllSources   *)
(* and cleanup.  The range loops over m.sources visit the keys in any       *)
(* order.                                                                   *)
(***************************************************************************)
Statuses == {"live", "offline"}

\* NewMonitor: the source map holds the enabled rooms whose source could be
\* constructed; the notification manager is nil when its construction failed.
NewMonitor ==
    /\ pcMonitor = "none"
    /\ sources' \in SUBSET MonKeys
    /\ notificationMgr' \in BOOLEAN
    /\ pcMonitor' = "begin"
    /\ UNCHANGED <<botVars, relayVars, monCtx, monTodo, lastStatus, ticks, checks, seen,
                   notified, listenerVars>>

\* Run with the test of its first line left out.
noSourcesIgnored == FALSE

\* Monitor.Run: len(m.sources) == 0.
noSources == sources = {}

\* Monitor.Run up to its loop: the error for an empty source map, otherwise
\* StartMsgListener() on every source.
MonitorRun ==
    CASE pcMonitor = "begin" ->
            /\ IF noSources
                 THEN pcMonitor' = "failed" /\ monTodo' = monTodo
                 ELSE pcMonitor' = "listen" /\ monTodo' = sources
            /\ UNCHANGED <<botVars, relayVars, sources, notificationMgr, monCtx, lastStatus,
                           ticks, checks, seen, notified, listenerVars>>
      [] pcMonitor = "listen" ->
            /\ IF monTodo = {}
                 THEN pcMonitor' = "select" /\ UNCHANGED <<monTodo, listenerStarts>>
                 ELSE \E k \in monTodo :
                        /\ listenerStarts' = [listenerStarts EXCEPT ![k] = @ + 1]
                        /\ monTodo' = monTodo \ {k}
                        /\ pcMonitor' = pcMonitor
            /\ UNCHANGED <<botVars, relayVars, sources, notificationMgr, monCtx, lastStatus,
                           ticks, checks, seen, notified, listenerCloses>>
      [] OTHER -> FALSE

\* Monitor.Run, the loop's select: the ticker has fired, checkAllSources() is
\* called.  The number of firings is bounded by MaxTicks.
MonitorTick ==
    /\ pcMonitor = "select"
    /\ ticks < MaxTicks
    /\ ticks' = ticks + 1
    /\ monTodo' = sources
    /\ pcMonitor' = "check"
    /\ UNCHANGED <<botVars, relayVars, sources, notificationMgr, monCtx, lastStatus, checks,
                   seen, notified, listenerVars>>

\* MonitorDone returning without the call of cleanup().
MonitorDoneNoCleanup ==
    /\ pcMonitor = "select"
    /\ monCtx
    /\ pcMonitor' = "done"
    /\ UNCHANGED <<botVars, relayVars, sources, notificationMgr, monCtx, monTodo, lastStatus,
                   ticks, checks, seen, notified, listenerVars>>

\* Monitor.Run, the loop's select: m.ctx is done, cleanup() is called.
MonitorDone ==
    /\ pcMonitor = "select"
    /\ monCtx
    /\ monTodo' = sources
    /\ pcMonitor' = "cleanup"
    /\ UNCHANGED <<botVars, relayVars, sources, notificationMgr, monCtx, lastStatus, ticks,
                   checks, seen, notified, listenerVars>>

\* statusChanged that holds for every check.
statusChangedAlways(last, status) == TRUE

\* checkAllSources: !exists || status != lastStatus.
statusChanged(last, status) == last = "unset" \/ status # last

\* checkCancelled that never sees the cancellation.
checkCancelledIgnored == FALSE

\* checkAllSources, the select at the head of the loop body: m.ctx is done.
checkCancelled == monCtx

\* Monitor.checkAllSources.  At "check", the head of the loop body: return
\* when every source has been visited or m.ctx is done, otherwise begin the
\* check of the next source.  At "poll", the check that has begun: read the
\* status and, when it changed, call SendLiveStatusNotification (if there is
\* a notification manager) and store the status.
checkAllSources ==
    CASE pcMonitor = "check" ->
            /\ IF monTodo = {} \/ checkCancelled
                 THEN pcMonitor' = "select"
                 ELSE pcMonitor' = "poll"
            /\ UNCHANGED <<botVars, relayVars, sources, notificationMgr, monCtx, monTodo,
                           lastStatus, ticks, checks, seen, notified, listenerVars>>
      [] pcMonitor = "poll" ->
            /\ \E k \in monTodo : \E status \in Statuses :
                 /\ monTodo' = monTodo \ {k}
                 /\ checks' = [checks EXCEPT ![k] = @ + 1]
                 /\ seen' = [seen EXCEPT ![k] = status]
                 /\ IF statusChanged(lastStatus[k], status)
                      THEN /\ notified' = [notified EXCEPT ![k] =
                                             IF notificationMgr THEN @ + 1 ELSE @]
                           /\ lastStatus' = [lastStatus EXCEPT ![k] = status]
                      ELSE UNCHANGED <<notified, lastStatus>>
            /\ pcMonitor' = "check"
            /\ UNCHANGED <<botVars, relayVars, sources, notificationMgr, monCtx, ticks,
                           listenerVars>>
      [] OTHER -> FALSE

\* Monitor.cleanup, and the return of nil from Run: CloseMsgListener() on every
\* source.
cleanup ==
    /\ pcMonitor = "cleanup"
    /\ IF monTodo = {}
         THEN pcMonitor' = "done" /\ UNCHANGED <<monTodo, listenerCloses>>
         ELSE \E k \in monTodo :
                /\ listenerCloses' = [listenerCloses EXCEPT ![k] = @ + 1]
                /\ monTodo' = monTodo \ {k}
                /\ pcMonitor' = pcMonitor
    /\ UNCHANGED <<botVars, relayVars, sources, notificationMgr, monCtx, lastStatus, ticks,
                   checks, seen, notified, listenerStarts>>

\* Monitor.Stop, called from another goroutine: m.cancel().
MonitorStop ==
    /\ pcMonitor # "none"
    /\ ~monCtx
    /\ monCtx' = TRUE
    /\ UNCHANGED <<botVars, relayVars, pcMonitor, sources, notificationMgr, monTodo,
                   lastStatus, ticks, checks, seen, notified, listenerVars>>

MonitorNext ==
    \/ NewMonitor
    \/ MonitorRun
    \/ MonitorTick
    \/ MonitorDone
    \/ checkAllSources
    \/ cleanup
    \/ MonitorStop
MonitorInit == ArgsInit
MonitorSpec == MonitorInit /\ [][MonitorNext]_vars

\* The goroutine of Run takes its steps; the select of the loop chooses at
\* random among its ready cases, so a done context is chosen in the end.
\* Nothing forces the call of Stop.
FairMonitorSpec ==
    /\ MonitorSpec
    /\ WF_vars(MonitorRun) /\ WF_vars(checkAllSources) /\ WF_vars(cleanup)
    /\ SF_vars(MonitorDone)

(***************************************************************************)
(* The Telegram bot (telegram/bot.go) and the relay service of the         *)
(* ServiceController (package control).  The goroutine of                   *)
(* Bot.handleCommands receives the updates; the handlers of /stop and       *)
(* /restart send a "command" notification, whose listeners run in the same  *)
(* goroutine and call ServiceController.handleBotCommand.  A system restart *)
(* starts a second goroutine of handleCommands on the same bot: the model   *)
(* follows the commands one at a time.  The monitor service and the status  *)
(* messages are not part of this model; the relay manager is seen from the  *)
(* controller: its calls of Run and Stop, which may block.                  *)
(***************************************************************************)

\* isAuthorized that lets every user in.
isAuthorizedAny(userID) == TRUE

\* Bot.isAuthorized, bot.go 331-338.
isAuthorized(userID) == \E i \in DOMAIN adminIDs : adminIDs[i] = userID

\* Bot.isCommandEnabled, bot.go 376-387.
isCommandEnabled(command) ==
    IF enabledCommands = {} THEN TRUE ELSE command \in enabledCommands

\* NewServiceController, relay.go 437-482: the configuration is loaded and
\* the bot is created from config.Telegram.
NewServiceController ==
    /\ pcBot = "none"
    /\ adminIDs' \in AdminLists
    /\ enabledCommands' \in CommandLists
    /\ relaysConfigured' \in BOOLEAN
    /\ updatesLeft' = NumUpdates
    /\ pcBot' = "created"
    /\ UNCHANGED <<relayVars, monVars, update, evVars, listeners, botCtx, histVars,
                   ctlVars>>

\* The relay part of ServiceController.Start, relay.go 535-557: the manager
\* is replaced and, unless its creation failed, a goroutine is launched.
startRelayManager(m) ==
    IF relaysConfigured
      THEN /\ relayManager' = (m # "error")
           /\ svc' = [svc EXCEPT !.spawned = IF m # "error" THEN @ + 1 ELSE @,
                                 !.live = 0,
                                 !.old = @ + svc.live]
           /\ IF m # "error"
                THEN managerRelays' = (m = "relays") /\ managerCancelled' = FALSE
                ELSE UNCHANGED <<managerRelays, managerCancelled>>
      ELSE UNCHANGED <<relayManager, svc, managerRelays, managerCancelled>>

\* ServiceController.Start, relay.go 485-569, called by the command and by
\* restartSystem: nm.Start() starts the bot (bot.go 76-94),
\* setupBotHandlers (604-615) adds a listener of "command".
ControllerStart ==
    /\ pcBot \in {"created", "sysStart"}
    /\ listeners' = listeners + 1
    /\ \E m \in NewManagers : startRelayManager(m)
    /\ pcBot' = IF pcBot = "created" THEN "loop" ELSE "listeners"
    /\ UNCHANGED <<relayVars, monVars, botConfig, inVars, evVars, botCtx, histVars,
                   inStop, relayRunning, managerStops, managerRuns>>

\* Bot.handleCommands, bot.go 298-328: one round of the loop.
handleCommands ==
    /\ pcBot = "loop"
    /\ \/ \* 306-307: case <-b.ctx.Done(): return
          /\ botCtx
          /\ pcBot' = "stopped"
          /\ UNCHANGED <<inVars, refused>>
       \/ \* 308-326: case update := <-updates
          /\ updatesLeft > 0
          /\ \E u \in Updates :
               /\ (u.command = "restart" /\ u.arg = "system") => listeners < MaxListeners
               /\ update' = u
               /\ updatesLeft' = updatesLeft - 1
               /\ IF u.kind # "command"
                    THEN \* 309-316: continue
                         pcBot' = pcBot /\ refused' = refused
                    ELSE IF ~isAuthorized(u.from)
                           THEN \* 319-322: the refusal, continue
                                pcBot' = pcBot /\ refused' = refused \cup {u.from}
                           ELSE \* 325: b.handleCommand(update.Message)
                                pcBot' = "command" /\ refused' = refused
    /\ UNCHANGED <<relayVars, monVars, botConfig, evVars, listeners, botCtx, handled,
                   ctlVars>>

\* Bot.handleCommand, bot.go 341-373.
handleCommand ==
    /\ pcBot = "command"
    /\ handled' = handled \cup {update.from}
    /\ IF ~isCommandEnabled(update.command)
         THEN \* 350-353: the command is disabled
              pcBot' = "loop" /\ event' = event
         ELSE CASE update.command \in {"start", "help"} ->
                      \* 400-434: a reply
                      pcBot' = "loop" /\ event' = event
                [] update.command \in {"status", "rooms", "relays"} ->
                      \* 437-479: SendNotification of the command of that name
                      pcBot' = "notify" /\ event' = update.command
                [] update.command = "stop" -> pcBot' = "stopCmd" /\ event' = event
                [] update.command = "restart" -> pcBot' = "restartCmd" /\ event' = event
                [] OTHER -> pcBot' = "loop" /\ event' = event
    /\ UNCHANGED <<relayVars, monVars, botConfig, inVars, deliver, listeners, botCtx,
                   refused, ctlVars>>

\* Bot.handleStopCommand, bot.go 485-518.
handleStopCommand ==
    /\ pcBot = "stopCmd"
    /\ CASE update.arg = "monitor" -> pcBot' = "notify" /\ event' = "stop_monitor"
         [] update.arg = "relay" -> pcBot' = "notify" /\ event' = "stop_relay"
         [] OTHER -> pcBot' = "loop" /\ event' = event
    /\ UNCHANGED <<relayVars, monVars, botConfig, inVars, deliver, listeners, botCtx,
                   histVars, ctlVars>>

\* Bot.handleRestartCommand, bot.go 521-566.
handleRestartCommand ==
    /\ pcBot = "restartCmd"
    /\ CASE update.arg = "monitor" -> pcBot' = "notify" /\ event' = "start_monitor"
         [] update.arg = "relay" -> pcBot' = "notify" /\ event' = "start_relay"
         [] update.arg = "system" -> pcBot' = "notify" /\ event' = "restart_system"
         [] OTHER -> pcBot' = "loop" /\ event' = event
    /\ UNCHANGED <<relayVars, monVars, botConfig, inVars, deliver, listeners, botCtx,
                   histVars, ctlVars>>

\* Bot.SendNotification, bot.go 113-153, of an event of type "command": the
\* messages go out, then the listeners of the type are called in turn.
SendNotification ==
    /\ pcBot = "notify"
    /\ deliver' = listeners
    /\ pcBot' = "listeners"
    /\ UNCHANGED <<relayVars, monVars, botConfig, inVars, event, listeners, botCtx,
                   histVars, ctlVars>>

\* The next listener (relay.go 610-614) and ServiceController.handleBotCommand,
\* relay.go 618-633; after the last listener SendNotification and the
\* handler return to the loop.
handleBotCommand ==
    /\ pcBot = "listeners"
    /\ IF deliver = 0
         THEN pcBot' = "loop" /\ deliver' = deliver
         ELSE /\ deliver' = deliver - 1
              /\ pcBot' = CASE event = "stop_relay" -> "stopRelay"
                            [] event = "start_relay" -> "startRelay"
                            [] event = "restart_system" -> "restartSystem"
                            [] OTHER -> "listeners"
    /\ UNCHANGED <<relayVars, monVars, botConfig, inVars, event, listeners, botCtx,
                   histVars, ctlVars>>

\* RelayManager.Stop as sc.relayManager.Stop(), relay.go 132-145: the calls of
\* relay.Stop(), rm.cancel() at 143, rm.wg.Wait() at 144.
relayManagerStop ==
    /\ pcBot \in {"stopRelay", "sysStop"}
    /\ CASE inStop = "stop" -> inStop' = "wait" /\ managerCancelled' = TRUE
         [] inStop = "wait" -> inStop' = "done" /\ managerCancelled' = managerCancelled
         [] OTHER -> FALSE
    /\ UNCHANGED <<relayVars, monVars, pcBot, botConfig, inVars, evVars, listeners,
                   botCtx, histVars, relayManager, managerRelays, relayRunning, svc,
                   managerStops, managerRuns>>

\* ServiceController.stopRelayService, relay.go 747-759.
stopRelayService ==
    /\ pcBot = "stopRelay"
    /\ CASE inStop = "no" ->
              IF relayManager
                THEN /\ inStop' = "stop"
                     /\ managerStops' = managerStops + 1
                     /\ UNCHANGED <<pcBot, relayRunning>>
                ELSE /\ pcBot' = "listeners"
                     /\ UNCHANGED <<inStop, managerStops, relayRunning>>
         [] inStop = "done" ->
              /\ relayRunning' = FALSE
              /\ inStop' = "no"
              /\ pcBot' = "listeners"
              /\ managerStops' = managerStops
         [] OTHER -> FALSE
    /\ UNCHANGED <<relayVars, monVars, botConfig, inVars, evVars, listeners, botCtx,
                   histVars, relayManager, managerRelays, managerCancelled, svc,
                   managerRuns>>

\* ServiceController.startRelayService, relay.go 762-797.
startRelayService ==
    /\ pcBot = "startRelay"
    /\ \E m \in NewManagers :
         IF ~relayManager /\ relaysConfigured /\ m = "error"
           THEN \* 769-775: the manager cannot be created, return
                UNCHANGED <<relayManager, managerRelays, managerCancelled, svc>>
           ELSE /\ IF ~relayManager /\ relaysConfigured
                     THEN /\ relayManager' = TRUE
                          /\ managerRelays' = (m = "relays")
                          /\ managerCancelled' = FALSE
                     ELSE UNCHANGED <<relayManager, managerRelays, managerCancelled>>
                /\ \* 777-796: the goroutine, unless the service is running
                   IF relayManager' /\ ~relayRunning
                     THEN svc' = [svc EXCEPT !.spawned = @ + 1]
                     ELSE svc' = svc
    /\ pcBot' = "listeners"
    /\ UNCHANGED <<relayVars, monVars, botConfig, inVars, evVars, listeners, botCtx,
                   histVars, inStop, relayRunning, managerStops, managerRuns>>

\* ServiceController.restartSystem, relay.go 800-818: the notification; Stop
\* and Start follow.
restartSystem ==
    /\ pcBot = "restartSystem"
    /\ pcBot' = "sysStop"
    /\ UNCHANGED <<relayVars, monVars, botConfig, inVars, evVars, listeners, botCtx,
                   histVars, ctlVars>>

\* ServiceController.Stop, relay.go 572-601, called by restartSystem: the
\* relay manager is stopped, then the notification manager, whose Stop
\* cancels the bot's context (bot.go 97-110).
ControllerStop ==
    /\ pcBot = "sysStop"
    /\ CASE inStop = "no" ->
              IF relayManager
                THEN /\ inStop' = "stop"
                     /\ managerStops' = managerStops + 1
                     /\ UNCHANGED <<pcBot, relayRunning, botCtx>>
                ELSE /\ botCtx' = TRUE
                     /\ pcBot' = "sysStart"
                     /\ UNCHANGED <<inStop, managerStops, relayRunning>>
         [] inStop = "done" ->
              /\ relayRunning' = FALSE
              /\ inStop' = "no"
              /\ botCtx' = TRUE
              /\ pcBot' = "sysStart"
              /\ managerStops' = managerStops
         [] OTHER -> FALSE
    /\ UNCHANGED <<relayVars, monVars, botConfig, inVars, evVars, listeners,
                   histVars, relayManager, managerRelays, managerCancelled, svc,
                   managerRuns>>

\* The goroutine of the relay service, relay.go 542-556 and 778-796, begins:
\* Running = true, then sc.relayManager.Run(), which panics on a nil manager.
relayServiceBegin ==
    /\ pcBot \notin {"none", "crashed"}
    /\ svc.spawned > 0
    /\ relayRunning' = TRUE
    /\ IF relayManager
         THEN /\ managerRuns' = managerRuns + 1
              /\ svc' = [svc EXCEPT !.spawned = @ - 1,
                                    !.live = IF managerRelays THEN @ + 1 ELSE @,
                                    !.failing = IF managerRelays THEN @ ELSE @ + 1]
              /\ pcBot' = pcBot
         ELSE /\ pcBot' = "crashed"
              /\ UNCHANGED <<managerRuns, svc>>
    /\ UNCHANGED <<relayVars, monVars, botConfig, inVars, evVars, listeners, botCtx,
                   histVars, relayManager, managerRelays, managerCancelled, inStop,
                   managerStops>>

\* Run returns the error of relay.go 105-107: Running = false.
relayServiceFails ==
    /\ pcBot \notin {"none", "crashed"}
    /\ svc.failing > 0
    /\ svc' = [svc EXCEPT !.failing = @ - 1]
    /\ relayRunning' = FALSE
    /\ UNCHANGED <<relayVars, monVars, pcBot, botConfig, inVars, evVars, listeners,
                   botCtx, histVars, relayManager, managerRelays, managerCancelled,
                   inStop, managerStops, managerRuns>>

\* Run returns nil, relay.go 123-128, once the manager's context is cancelled
\* and its own call of Stop has returned: the goroutine ends.
relayServiceReturns ==
    /\ pcBot \notin {"none", "crashed"}
    /\ \/ /\ svc.live > 0 /\ managerCancelled
          /\ svc' = [svc EXCEPT !.live = @ - 1]
       \/ /\ svc.old > 0
          /\ svc' = [svc EXCEPT !.old = @ - 1]
    /\ UNCHANGED <<relayVars, monVars, pcBot, botConfig, inVars, evVars, listeners,
                   botCtx, histVars, relayManager, managerRelays, managerCancelled,
                   inStop, relayRunning, managerStops, managerRuns>>

BotNext ==
    \/ NewServiceController
    \/ ControllerStart
    \/ handleCommands
    \/ handleCommand
    \/ handleStopCommand
    \/ handleRestartCommand
    \/ SendNotification
    \/ handleBotCommand
    \/ relayManagerStop
    \/ stopRelayService
    \/ startRelayService
    \/ restartSystem
    \/ ControllerStop
    \/ relayServiceBegin
    \/ relayServiceFails
    \/ relayServiceReturns
BotInit == ArgsInit
BotSpec == BotInit /\ [][BotNext]_vars

\* The goroutines take their steps.  Nothing forces an update to arrive, nor
\* RelayManager.Stop to get past the locks of its relays.
FairBotSpec ==
    /\ BotSpec
    /\ WF_vars(ControllerStart) /\ WF_vars(handleCommand)
    /\ WF_vars(handleStopCommand) /\ WF_vars(handleRestartCommand)
    /\ WF_vars(SendNotification) /\ WF_vars(handleBotCommand)
    /\ WF_vars(stopRelayService) /\ WF_vars(startRelayService)
    /\ WF_vars(restartSystem) /\ WF_vars(ControllerStop)
    /\ WF_vars(relayServiceBegin) /\ WF_vars(relayServiceFails)

(***************************************************************************)
(* The properties.                                                         *)
(***************************************************************************)

\* C1: in a relay with NumDests destinations that is streaming, when the first
\* destination's process fails while the last one runs on, the relay eventually
\* has no process left running, has lastError set and restartCount increased,
\* and is in the backoff delay (unless its scope is cancelled first).
C1_PartialFailureRestartsCycle ==
    \A r \in Defs :
        (pc[r] = "select" /\ NDest(r) = NumDests
            /\ plan[1] = "fail" /\ plan[NumDests] = "run")
        ~> (\/ ctxDone(r)
            \/ /\ pc[r] = "backoff"
               /\ lastError[r] = "dest"
               /\ restartCount[r] >= 1
               /\ \A d \in Dests : cmd[r][d].st # "running")

\* C1's case: the relay streams, the failing destination's worker has built its
\* command and waits for sr.mu.
C1_Witness ==
    \E r \in Defs :
        /\ pc[r] = "select" /\ ~ctxDone(r) /\ NDest(r) = NumDests
        /\ plan[1] = "fail" /\ plan[NumDests] = "run"
        /\ \A d \in Dests : pcW[r][d] = "lock"

\* C2: when Stop() is called on a relay that is streaming, the relay's
\* isRunning eventually is false, its process map is empty and none of its
\* processes is running.
C2_StopWhileStreamingStops ==
    \A t \in Callers : \A r \in Defs :
        (pcStop[t] = "stop" /\ cur[t] = r /\ pc[r] = "select")
        ~> (/\ ~isRunning[r]
            /\ processes[r] = {}
            /\ \A d \in Dests : cmd[r][d].st # "running")

\* C2's case: Stop() has been called on a streaming relay that is not cancelled.
C2_Witness ==
    \E t \in Callers :
        /\ pcStop[t] = "stop"
        /\ pc[cur[t]] = "select" /\ isRunning[cur[t]] /\ ~ctxDone(cur[t])

\* C3: a Stop() called on a relay whose supervision loop is mid-cycle (polling
\* the source, streaming or in backoff) eventually returns to its caller.
C3_StopReturns ==
    \A t \in Callers :
        (pcStop[t] = "stop"
            /\ pc[cur[t]] \in {"loop", "poll", "sleep", "url", "select", "failed",
                               "backoff"})
        ~> (pcStop[t] \notin {"stop", "sap"})

\* C3's case: Stop() is called while the loop is in the backoff delay.
C3_Witness ==
    \E t \in Callers : pcStop[t] = "stop" /\ pc[cur[t]] = "backoff"

\* C4: RelayManager.Stop() returns only when no supervision goroutine is left,
\* and a RelayManager.Stop() called while a supervision goroutine is running
\* eventually returns, with the manager's scope cancelled.
C4_ManagerStopReturns ==
    /\ [][\A t \in Callers :
            (pcStop[t] # "done" /\ pcStop'[t] = "done")
                => (wg = 0 /\ \A r \in relays : pc[r] \in {"idle", "exited"})]_vars
    /\ \A t \in Callers :
          (pcStop[t] = "lock" /\ \E r \in relays : pc[r] \notin {"idle", "exited"})
          ~> (pcStop[t] = "done" /\ mctx)

\* C4's case: the signal handler has called RelayManager.Stop() while a relay's
\* supervision goroutine is inside its loop.
C4_Witness ==
    /\ pcStop["sig"] = "lock"
    /\ \E r \in relays : pc[r] \in {"poll", "sleep", "select", "backoff"}

\* C5: Run() is past its wait only when the manager's scope is cancelled, and
\* once the scope is cancelled while Run() is executing, Run() eventually
\* returns nil.
C5_RunReturnsAfterCancel ==
    /\ [](pcRun \in {"stop", "done"} => mctx)
    /\ (mctx /\ pcRun \in {"spawn", "wait", "stop"}) ~> (pcRun = "done")

\* C5's case: an external Stop() has cancelled the scope and returned, and
\* Run() is executing its own Stop().
C5_Witness ==
    /\ mctx /\ pcStop["sig"] = "done"
    /\ pcRun = "stop" /\ pcStop["run"] \in {"lock", "iter", "stop", "sap", "wait"}

C7_EveryDestinationLaunched ==
    /\ [](\A r \in Defs : \A d \in Dests :
            cmd[r][d].st # "none" => cmd[r][d].url = sourceURL[r])
    /\ \A r \in Defs :
          (pc[r] = "select" /\ \A d \in Dests : plan[d] = "run")
          ~> (ctxDone(r) \/ Cardinality(processes[r]) = NDest(r))

\* C7's case: a relay with NumDests destinations streams, and every worker
\* has built its command with the resolved URL.
C7_Witness ==
    \E r \in Defs :
        /\ pc[r] = "select" /\ ~ctxDone(r) /\ NDest(r) = NumDests
        /\ \A d \in Dests : plan[d] = "run"
        /\ \A d \in Dests : cmd[r][d] = [url |-> "u1", st |-> "created"]

\* C8: when a relay's scope is cancelled while it streams, eventually Start
\* has returned and none of the relay's processes is running.
C8_CancelWhileStreamingExits ==
    \A r \in Defs :
        (pc[r] = "select" /\ ctxDone(r))
        ~> (pc[r] \in {"returned", "exited"}
            /\ \A d \in Dests : cmd[r][d].st # "running")

\* C8's case: the select of runRelay has taken the cancellation.
C8_Witness ==
    \E r \in Defs : pc[r] = "sapCtx" /\ NDest(r) = NumDests

\* C9: as long as the source has never reported live to a relay, the relay has
\* resolved no URL, has launched no destination worker, has recorded no error
\* and its restartCount is 0.
C9_NeverLiveNeverStreams ==
    \A r \in Defs :
        ~everLive[r] =>
            /\ pc[r] \notin {"url", "select", "sapCtx", "sapErr", "failed", "backoff"}
            /\ sourceURL[r] = ""
            /\ \A d \in Dests : pcW[r][d] = "none" /\ cmd[r][d] = NoCmd
            /\ processes[r] = {}
            /\ lastError[r] = "nil"
            /\ restartCount[r] = 0

\* C9's case: the relay has polled a source that has never been live and is in
\* the sleep that follows.
C9_Witness ==
    \E r \in Defs : pc[r] = "sleep" /\ ~everLive[r] /\ isRunning[r]

\* C10: no step of Run, Stop, Start, the supervision loop, the workers or
\* GetStatus makes the restartCount of a relay smaller.
C10_RestartCountMonotonic ==
    [][\A r \in Defs : restartCount'[r] >= restartCount[r]]_vars

\* C10's case: restartCount has been increased to MaxRestarts, Start has
\* returned and GetStatus has reported the count.
C10_Witness ==
    \E r \in Defs :
        /\ restartCount[r] = MaxRestarts
        /\ snap[r] # <<>> /\ snap[r][1].RestartCount = MaxRestarts

\* C12: at no time are two invocations of runRelay of the same relay active,
\* also when Start() is called a second time, before, while or after the
\* first call runs.
C12_CyclesSequential ==
    \A r \in Defs :
        ~(/\ pc[r] \in {"poll", "sleep", "url", "select", "sapCtx", "sapErr"}
          /\ pcAgain[r] = "cycle")

\* C12's case: Start() has been called a second time while a streaming cycle
\* of the relay is active.
C12_Witness ==
    \E r \in Defs : pc[r] = "select" /\ pcAgain[r] = "lock"

\* C14: when the relay's scope is cancelled while the relay is in the sleep
\* between two polls, the next step of the supervision loop is its exit: it
\* does not take the end of the sleep.
C14_PollSleepCancellable ==
    [][\A r \in Defs :
         (pc[r] = "sleep" /\ ctxDone(r) /\ pc'[r] # pc[r])
            => pc'[r] = "returned"]_vars

\* C14's case: the scope is cancelled while the relay is in the poll sleep.
C14_Witness ==
    \E r \in Defs : pc[r] = "sleep" /\ ctxDone(r)

C16_StartOnRunningIsNoOp ==
    /\ [][\A r \in Defs :
            (pcAgain[r] = "lock" /\ isRunning[r] /\ pcAgain'[r] # pcAgain[r])
               => (/\ pcAgain'[r] = "returned"
                   /\ startTime'[r] = startTime[r]
                   /\ restartCount'[r] = restartCount[r]
                   /\ lastError'[r] = lastError[r]
                   /\ isRunning'[r] = isRunning[r]
                   /\ processes'[r] = processes[r])]_vars
    /\ \A r \in Defs :
          (pcAgain[r] = "lock" /\ isRunning[r])
          ~> (pcAgain[r] = "returned" \/ ~isRunning[r])

\* C16's case: Start() is called while the supervision loop of the relay is
\* polling its source.
C16_Witness ==
    \E r \in Defs : pcAgain[r] = "lock" /\ isRunning[r] /\ pc[r] = "poll"

\* C17: a relay on which Start has not acted reports IsRunning = false,
\* RestartCount = 0 and ProcessCount = 0; a Stop() that finds isRunning false
\* changes no field of the relay; and a Stop() called on a relay whose
\* isRunning is false eventually returns (unless the relay is started first).
C17_StopOnIdleRelay ==
    /\ [](\A r \in Defs :
            (pc[r] \in {"idle", "lock"} /\ pcAgain[r] \in {"idle", "lock"})
               => RelayStatus(r) = [IsRunning |-> FALSE, StartTime |-> FALSE,
                                    LastError |-> "nil", RestartCount |-> 0,
                                    ProcessCount |-> 0])
    /\ [][\A r \in Defs :
            (pcDirect[r] = "lock" /\ ~isRunning[r] /\ pcDirect'[r] # pcDirect[r])
               => (/\ pcDirect'[r] = "returned"
                   /\ RelayStatus(r)' = RelayStatus(r)
                   /\ cmd'[r] = cmd[r] /\ rctx'[r] = rctx[r])]_vars
    /\ \A r \in Defs :
          (pcDirect[r] = "lock" /\ ~isRunning[r])
          ~> (pcDirect[r] = "returned" \/ isRunning[r])

\* C17's case: Stop() is called on a relay that an earlier Stop() has stopped.
C17_Witness ==
    \E r \in Defs :
        /\ pcDirect[r] = "lock" /\ ~isRunning[r]
        /\ startTime[r] /\ pc[r] = "exited"

\* C18: every key of the manager's relay map names an enabled definition, and
\* a definition that is not enabled never has a relay: nothing is started,
\* stopped or recorded under its name.
C18_OnlyEnabledRelays ==
    /\ \A n \in relays : config[n].enabled
    /\ \A n \in Defs :
          ~config[n].enabled =>
              /\ n \notin relays /\ n \notin toSpawn
              /\ \A t \in Callers : n \notin todo[t]
              /\ pc[n] = "idle" /\ mu[n] = "free"
              /\ ~isRunning[n] /\ ~startTime[n]

\* C18's case: a definition that is not enabled, and could be constructed,
\* next to a relay that the manager runs.
C18_Witness ==
    \E n \in Defs : \E m \in Defs :
        /\ ~config[n].enabled
        /\ config[n].platform = "bilibili" /\ config[n].room = <<"7", "6">>
        /\ pc[m] = "poll"

\* C19: on a manager without relays Run() only ever takes one step, the return
\* of the error, which creates no goroutine and changes neither the scope nor
\* any relay.
C19_RunWithoutRelaysFails ==
    /\ [](relays = {} =>
            /\ pcRun \in {"begin", "failed"}
            /\ wg = 0 /\ toSpawn = {}
            /\ \A r \in Defs : pc[r] = "idle" /\ ~isRunning[r])
    /\ [][(relays = {} /\ pcRun' # pcRun) =>
            /\ pcRun = "begin" /\ pcRun' = "failed"
            /\ UNCHANGED <<ctxVars, rmMu, wg, toSpawn, pc, relayFields, procVars>>]_vars

\* C19's case: Run() has returned the error on a manager without relays.
C19_Witness ==
    relays = {} /\ pcRun = "failed" /\ ~mctx

\* C20: an enabled definition whose platform is not supported or whose room
\* identifier is not valid has no relay, and nothing is started under its
\* name; an enabled definition of platform bilibili with a valid room
\* identifier has its relay, whatever the other definitions are.
C20_UnconstructibleSkipped ==
    \A n \in Defs :
        /\ (config[n].enabled
              /\ (config[n].platform # "bilibili" \/ config[n].room # <<"7", "6">>))
           => (n \notin relays /\ pc[n] = "idle" /\ ~isRunning[n])
        /\ (config[n].enabled
              /\ config[n].platform = "bilibili" /\ config[n].room = <<"7", "6">>)
           => (n \in relays /\ (pcRun \in {"wait", "stop", "done"} => pc[n] # "idle"))

\* C20's case: an enabled definition that cannot be constructed next to a
\* relay that the manager runs.
C20_Witness ==
    \E n \in Defs : \E m \in Defs :
        /\ config[n].enabled /\ n \notin relays
        /\ m \in relays /\ pc[m] = "poll"

\* C21: a failing relay never makes the manager fail.  Run returns an error
\* only when there is no relay to run; when runRelay has returned an error to
\* Start, Start goes to its backoff wait and from there to the next attempt
\* (or returns nil when its context is done), and that step changes neither
\* the manager's position or context nor any other relay's position, running
\* flag or context.
C21_FailingRelayIsContained ==
    /\ [](pcRun = "failed" => relays = {})
    /\ [][\A r \in Defs :
            /\ (pc[r] = "failed" /\ pc'[r] # "failed") =>
                  /\ pc'[r] = "backoff"
                  /\ pcRun' = pcRun /\ mctx' = mctx /\ rctx' = rctx
                  /\ \A o \in Defs \ {r} :
                        pc'[o] = pc[o] /\ isRunning'[o] = isRunning[o]
            /\ (pc[r] = "backoff" /\ pc'[r] # "backoff") =>
                  \/ pc'[r] = "loop"
                  \/ ctxDone(r) /\ pc'[r] = "returned"]_vars

\* C21: one relay is in its backoff wait after MaxRestarts failures while the
\* other one is in a cycle and the manager is waiting, not cancelled.
C21_Witness ==
    \E r \in Defs : \E o \in Defs \ {r} :
        /\ pc[r] = "backoff" /\ restartCount[r] = MaxRestarts
        /\ pc[o] \in {"poll", "select"}
        /\ pcRun = "wait" /\ ~mctx

\* The goroutines that are inside a write access to relay r's process map and
\* status fields, by their positions in the code: the supervision task between
\* the Lock of Start and its return, a caller of Stop between its Lock and its
\* return, and whether a caller of GetStatus is between RLock and RUnlock.
InStart(r) ==
    pc[r] \in {"loop", "poll", "sleep", "url", "select", "sapCtx", "sapErr",
               "failed", "backoff"}
WritersIn(r) ==
    (IF InStart(r) THEN {"Start"} ELSE {})
      \cup (IF pcAgain[r] \in {"loop", "cycle"} THEN {"Again"} ELSE {})
      \cup {t \in Callers : pcStop[t] = "sap" /\ cur[t] = r}
      \cup (IF pcDirect[r] = "sap" THEN {"Direct"} ELSE {})
ReaderIn(r) == pcStatus = "read" /\ statusOf = r

\* C22: the accesses to one relay's process map and status fields exclude one
\* another.  At most one of the supervision task and the callers of Stop is
\* inside its access, and none of them while GetStatus is inside its read; a
\* step that changes the map or a status field is taken by the goroutine that
\* is inside, or by one that enters while nobody is; a worker registers its
\* process only while nobody is inside.
C22_AccessesExclusive ==
    /\ [](\A r \in Defs :
            /\ Cardinality(WritersIn(r)) <= 1
            /\ ReaderIn(r) => WritersIn(r) = {})
    /\ [][\A r \in Defs :
            /\ <<isRunning[r], lastError[r], restartCount[r], startTime[r],
                  processes[r]>>
                 # <<isRunning'[r], lastError'[r], restartCount'[r], startTime'[r],
                     processes'[r]>>
                 => /\ ~ReaderIn(r)
                    /\ WritersIn(r) = {} \/ WritersIn(r)' = WritersIn(r)
            /\ processes'[r] \ processes[r] # {} => WritersIn(r) = {}
            /\ (ReaderIn(r)' /\ ~ReaderIn(r)) => WritersIn(r) = {}]_vars

\* C22: all four parties meet at one relay: the supervision task is inside
\* (waiting for the first error of its cycle), a worker is at the Lock of
\* line 246, a caller of Stop is at the Lock of line 314 and a caller of
\* GetStatus is at the RLock of line 329.
C22_Witness ==
    \E r \in Defs : \E d \in Dests : \E t \in Callers :
        /\ pc[r] = "select" /\ isRunning[r]
        /\ pcW[r][d] = "lock"
        /\ pcStop[t] = "stop" /\ cur[t] = r
        /\ pcStatus = "rlock" /\ statusOf = r

\* C23: the cancellation scopes form a hierarchy.  Once the manager's scope
\* is cancelled the scope of every relay it owns is done, and a supervision
\* loop that looks at its scope then returns.  A step of Stop() that cancels
\* the scope of one relay leaves the manager's scope alone and, for every
\* other relay, its own scope, its running flag, its process map and its
\* commands.
C23_ScopeHierarchy ==
    /\ [](mctx => \A r \in relays : ctxDone(r))
    /\ [][\A r \in Defs :
            /\ (mctx /\ pc[r] = "loop" /\ pc'[r] # "loop") => pc'[r] = "returned"
            /\ (rctx'[r] /\ ~rctx[r]) =>
                  /\ mctx' = mctx
                  /\ ~isRunning'[r]
                  /\ \A o \in Defs \ {r} :
                        /\ rctx'[o] = rctx[o]
                        /\ ctxDone(o)' = ctxDone(o)
                        /\ isRunning'[o] = isRunning[o]
                        /\ processes'[o] = processes[o]
                        /\ cmd'[o] = cmd[o]]_vars

\* C23: the manager's scope has been cancelled and Stop() has acted on one
\* relay, whose own scope is cancelled and whose flag is down, while the other
\* relay of the manager still has its flag up and its own scope untouched.
C23_Witness ==
    \E r \in relays : \E o \in relays \ {r} :
        /\ mctx
        /\ rctx[r] /\ ~isRunning[r]
        /\ ~rctx[o] /\ isRunning[o]

\* C24: the argument builder is deterministic: two calls with the same
\* resolved URL, quality and destination return the same argument sequence.
C24_BuilderDeterministic ==
    \A i \in DOMAIN buildOut : \A j \in DOMAIN buildOut : buildOut[i] = buildOut[j]

\* C24: two calls have been made for a destination with two or more options.
C24_Witness ==
    /\ Len(buildOut) >= 2
    /\ Cardinality(DOMAIN buildIn[1].dest.options) >= 2

\* C25: the quality flags of every returned argument list, the part between
\* the six leading arguments and the option pairs, follow the table: "720p"
\* gives -s 1280x720 -b:v 2000k, "480p" gives -s 854x480 -b:v 1000k, "worst"
\* gives -b:v 500k, "best" and an unset quality give nothing.
C25_QualityTable ==
    buildIn # <<>> =>
        LET call == buildIn[1]
            nopt == Cardinality(DOMAIN call.dest.options)
        IN  \A i \in DOMAIN buildOut :
              LET seg == SubSeq(buildOut[i], 7, Len(buildOut[i]) - 1 - 2 * nopt)
              IN  /\ call.quality = "720p" =>
                        seg = <<Flag("s"), Word("1280x720"), Flag("b:v"), Word("2000k")>>
                  /\ call.quality = "480p" =>
                        seg = <<Flag("s"), Word("854x480"), Flag("b:v"), Word("1000k")>>
                  /\ call.quality = "worst" => seg = <<Flag("b:v"), Word("500k")>>
                  /\ call.quality \in {"best", ""} => seg = <<>>

\* C25: a call with quality "480p" and an option has returned.
C25_Witness ==
    /\ buildOut # <<>>
    /\ buildIn[1].quality = "480p"
    /\ DOMAIN buildIn[1].dest.options # {}

\* C26: every returned argument list is -i <resolvedURL> -c copy -f flv, then
\* a row of the quality table, then for every option entry exactly one pair
\* -<key> <value>, then the destination URL as its last element; without
\* options nothing stands between the quality flags and the URL.
C26_ArgumentLayout ==
    buildIn # <<>> =>
        LET call == buildIn[1]
            opts == call.dest.options
            nopt == Cardinality(DOMAIN opts)
        IN  \A i \in DOMAIN buildOut :
              LET a == buildOut[i]
                  nq == Len(a) - 7 - 2 * nopt
                  qseg == SubSeq(a, 7, 6 + nq)
                  oseg == SubSeq(a, 7 + nq, Len(a) - 1)
              IN  /\ nq >= 0
                  /\ SubSeq(a, 1, 6) = <<Flag("i"), Word(call.sourceURL), Flag("c"),
                                         Word("copy"), Flag("f"), Word("flv")>>
                  /\ qseg \in {<<>>,
                                <<Flag("b:v"), Word("500k")>>,
                                <<Flag("s"), Word("1280x720"), Flag("b:v"), Word("2000k")>>,
                                <<Flag("s"), Word("854x480"), Flag("b:v"), Word("1000k")>>}
                  /\ \A k \in DOMAIN opts :
                        Cardinality({j \in 1..nopt :
                                       /\ oseg[2 * j - 1] = Flag(k)
                                       /\ oseg[2 * j] = Word(opts[k])}) = 1
                  /\ a[Len(a)] = Word(call.dest.url)

\* C26: a call with quality "720p" and MaxOptions options has returned.
C26_Witness ==
    /\ buildOut # <<>>
    /\ buildIn[1].quality = "720p"
    /\ Cardinality(DOMAIN buildIn[1].dest.options) = MaxOptions

\* C27: the relay calls the StartMsgListener hook of its source once for each
\* start of the relay and the CloseMsgListener hook once for each stop: a
\* relay that Start() has started has one call of the first, a relay that
\* Stop() has stopped has one call of the second, and the others have none.
C27_HooksOncePerStartStop ==
    \A r \in Defs :
        /\ listenerStarts[r] = (IF startTime[r] THEN 1 ELSE 0)
        /\ listenerCloses[r] = (IF rctx[r] THEN 1 ELSE 0)

\* C27: a relay has been started by Start() and stopped by Stop().
C27_Witness == \E r \in Defs : startTime[r] /\ rctx[r] /\ ~isRunning[r]

\* C28: Run() on a monitor without sources returns the error as its first
\* step: it is nowhere else once it has begun, and when it has failed no
\* message listener has been started, the ticker has not fired and no source
\* has been checked.
C28_RunWithoutSourcesFails ==
    /\ (sources = {} /\ pcMonitor \notin {"none", "begin"}) => pcMonitor = "failed"
    /\ pcMonitor = "failed" =>
          /\ sources = {}
          /\ ticks = 0
          /\ \A k \in MonKeys : listenerStarts[k] = 0 /\ checks[k] = 0

\* C28: Run() has returned the error.
C28_Witness == pcMonitor = "failed" /\ sources = {}

\* C29: once Stop() has been called on a monitor that has sources, Run()
\* eventually returns nil, and when it has returned the message listener of
\* every source has been closed exactly once.
C29_StopEndsRun ==
    /\ (monCtx /\ sources # {} /\ pcMonitor # "none") ~> (pcMonitor = "done")
    /\ [](pcMonitor = "done" =>
            \A k \in MonKeys : listenerCloses[k] = (IF k \in sources THEN 1 ELSE 0))

\* C29: Run() has returned nil on a monitor of two sources after the ticker
\* had fired.
C29_Witness ==
    /\ pcMonitor = "done" /\ monCtx
    /\ sources = MonKeys
    /\ ticks >= 1

\* C30, as stated: a notification is sent for a source only by a check that
\* observes a status different from the one the previous check observed, and
\* a check that observes the same status as the previous one sends none.
C30_NotifiedOnlyOnTransition ==
    [][\A k \in MonKeys :
         /\ notified'[k] # notified[k] => (seen[k] # "none" /\ seen'[k] # seen[k])
         /\ (checks'[k] # checks[k] /\ seen'[k] = seen[k]) =>
               notified'[k] = notified[k]]_vars

\* C30, amended: a notification is sent for a source only by its first check
\* or by a check that observes a status different from the one the previous
\* check observed, and a check that observes the same status as the previous
\* one sends none.
C30_NotifiedOnFirstOrTransition ==
    [][\A k \in MonKeys :
         /\ notified'[k] # notified[k] => (seen[k] = "none" \/ seen'[k] # seen[k])
         /\ (checks'[k] # checks[k] /\ seen'[k] = seen[k]) =>
               notified'[k] = notified[k]]_vars

\* C30: a source has been checked twice with the same status: its first check
\* sent a notification, the second sent none.
C30_Witness ==
    \E k \in sources :
        /\ notificationMgr
        /\ checks[k] = 2
        /\ notified[k] = 1
        /\ lastStatus[k] = seen[k]

\* C33: a GetStatus() called on a relay whose supervision loop is running is
\* not blocked for as long as the loop runs: it gets past its RLock and reads
\* the relay's fields (unless the loop has ended first).
C33_GetStatusNotBlocked ==
    (pcStatus = "rlock" /\ InStart(statusOf))
        ~> (pcStatus = "read" \/ ~InStart(statusOf))

\* C33: GetStatus() has been called on a relay whose loop is polling a source
\* that is not live.
C33_Witness == pcStatus = "rlock" /\ pc[statusOf] = "sleep" /\ ~ctxDone(statusOf)

\* C34: the running flag that GetStatus() reports is up only while the
\* supervision loop is active: in every state in which Start() has returned
\* the flag is down.
C34_NotRunningAfterReturn ==
    \A r \in Defs : pc[r] \in {"returned", "exited"} => ~isRunning[r]

\* C34: Start() had entered its loop and has returned.
C34_Witness ==
    \E r \in Defs : pc[r] \in {"returned", "exited"} /\ startTime[r]

\* C36: a cycle whose destination processes all exit without error ends
\* without error once they all have exited, not before, and the relay then
\* polls its source again, with restartCount and lastError as they were and
\* without the backoff delay (unless its scope is cancelled first).
C36_CleanExitPollsAgain ==
    /\ \A r \in Defs :
          (pc[r] = "select" /\ NDest(r) = NumDests) ~> (pc[r] = "poll" \/ ctxDone(r))
    /\ [](\A r \in Defs :
            (pc[r] = "sapErr" /\ recv[r] = "nil") =>
                \A d \in Destinations(r) : cmd[r][d].st # "running")
    /\ [][\A r \in Defs :
            (pc[r] = "sapErr" /\ recv[r] = "nil" /\ pc'[r] # "sapErr") =>
                /\ pc'[r] = "loop"
                /\ restartCount'[r] = restartCount[r]
                /\ lastError'[r] = lastError[r]]_vars

\* C36: a relay with NumDests destinations whose processes would all exit with
\* status 0 has started its workers and waits for the end of the cycle.
C36_Witness ==
    \E r \in Defs :
        /\ pc[r] = "select" /\ NDest(r) = NumDests /\ ~ctxDone(r)
        /\ \A d \in Dests : plan[d] = "exit0" /\ pcW[r][d] = "lock"

\* C37: in every state of a relay lastError is set exactly when restartCount
\* is at least 1, in the relay's fields and in every snapshot GetStatus()
\* returned; and lastError, once set, stays set whatever the later cycles do.
C37_LastErrorIffRestarted ==
    /\ [](\A r \in Defs :
            /\ lastError[r] # "nil" <=> restartCount[r] >= 1
            /\ snap[r] # <<>> =>
                  (snap[r][1].LastError # "nil" <=> snap[r][1].RestartCount >= 1))
    /\ [][\A r \in Defs : lastError[r] # "nil" => lastError'[r] # "nil"]_vars

\* C37: after a cycle that failed, a later cycle has ended without error (the
\* source was not live) and the relay waits out the poll interval.
C37_Witness ==
    \E r \in Defs :
        /\ pc[r] = "sleep"
        /\ restartCount[r] >= 1 /\ lastError[r] # "nil"

\* C39: once Stop() has cancelled the monitor's scope no check of a further
\* source begins; only a check that had begun before can complete, and apart
\* from it no source's status is polled and no notification is sent.
C39_NoCheckAfterStop ==
    [][monCtx =>
         /\ pcMonitor' = "poll" => pcMonitor = "poll"
         /\ pcMonitor # "poll" =>
               checks' = checks /\ seen' = seen /\ notified' = notified]_vars

\* C39: Stop() was called during the first pass over two sources: one source
\* has been checked, the other has not, and the pass has returned.
C39_Witness ==
    /\ monCtx /\ ticks = 1
    /\ pcMonitor \in {"select", "cleanup", "done"}
    /\ \E k \in sources : \E j \in sources : checks[k] = 1 /\ checks[j] = 0

\* C31: a bot command reaches its handler only when the sender's user ID is
\* one of the configured AdminIDs: while a handler runs, the update's sender
\* is an admin; no other user's command has ever been handled, nor has it
\* made the controller stop or start the relay service; with an empty
\* AdminIDs list no command is handled at all.
C31_OnlyAdminsHandled ==
    LET Admins == {adminIDs[i] : i \in DOMAIN adminIDs}
    IN  /\ handled \subseteq Admins
        /\ pcBot \in {"command", "stopCmd", "restartCmd", "notify", "listeners",
                      "stopRelay", "startRelay", "restartSystem", "sysStop",
                      "sysStart"}
             => update.kind = "command" /\ update.from \in Admins
        /\ Admins = {} => handled = {} /\ managerStops = 0 /\ event = ""

\* An admin's command has been handled and another user's command refused.
C31_Witness ==
    /\ handled # {}
    /\ refused # {}
    /\ pcBot = "stopRelay"
    /\ update.from \in handled

====
